---- MODULE Spec2Model ----
(***************************************************************************)
(* Model of the multi-page project session manager, the JSON repair        *)
(* function and the page-sequence derivation of src/backend/server.js, and *)
(* of parseJSONResponse of src/unnamed/part_000.                           *)
(*                                                                         *)
(* JavaScript strings that the code searches or rewrites (descriptions,    *)
(* element texts, generator output) are sequences of one-character         *)
(* strings.  Page types, statuses and colours are only compared for        *)
(* equality by the code and are TLA+ strings.                              *)
(***************************************************************************)
EXTENDS Integers, Sequences, FiniteSets, Bags, TLC

VARIABLES
    projects,    \* key set of the Map `projects` (server.js:222)
    heap,        \* the project objects, by id; the Map maps a key to heap[key]
    timers,      \* ids whose setTimeout callback (server.js:259) is still pending
    nextId,      \* stands for the fresh `proj_<time>_<random>` id of createProject
    inflight,    \* bag of generate-next-page requests suspended at their await
    res,         \* the last HTTP response sent
    str,         \* function run: the text given to the function
    ret,         \* function run: how the call ended, or what it returned
    pc,          \* function run: "call" before the call, the call made after it
    apiKey       \* process.env.GEMINI_API_KEY is set (server.js:994, 1208)

vars == <<projects, heap, timers, nextId, inflight, res, str, ret, pc, apiKey>>

sessionVars == <<projects, heap, timers, nextId, inflight, res, apiKey>>
repairVars == <<str, ret, pc>>

----------------------------------------------------------------------------
(* Bounds of the model *)

\* requests served in a run that create a session or generate a page
MaxRequests == 4
\* generate-next-page requests suspended at their await at the same time
MaxInflight == 2

ProjectIds == 1..MaxRequests

----------------------------------------------------------------------------
(* JavaScript values *)

Undefined == "undefined"

\* JavaScript truthiness of a string-or-undefined value
Truthy(v) == v # Undefined /\ v # ""

PROJECT_TIMEOUT == 86400000

PAGE_TYPES ==
    [LOGIN |-> "login", HOME |-> "home", DETAIL |-> "detail",
     CONTACT |-> "contact", ABOUT |-> "about", FEATURES |-> "features"]

UpperChars ==
    <<"A","B","C","D","E","F","G","H","I","J","K","L","M",
      "N","O","P","Q","R","S","T","U","V","W","X","Y","Z">>
LowerChars ==
    <<"a","b","c","d","e","f","g","h","i","j","k","l","m",
      "n","o","p","q","r","s","t","u","v","w","x","y","z">>

\* String.prototype.includes
includes(s, sub) ==
    \E i \in 0..(Len(s) - Len(sub)) :
        \A k \in 1..Len(sub) : s[i + k] = sub[k]

\* Array.prototype.indexOf, 0-based, -1 when absent
indexOf(arr, x) ==
    IF \E i \in 1..Len(arr) : arr[i] = x
    THEN (CHOOSE i \in 1..Len(arr) :
            arr[i] = x /\ \A j \in 1..(i - 1) : arr[j] # x) - 1
    ELSE -1

\* variant: splice(index) without a delete count drops the rest of the array
splice1_toEnd(arr, index) == SubSeq(arr, 1, index)

\* Array.prototype.splice(index, 1): the array without the element at 0-based index
splice1(arr, index) ==
    [i \in 1..(Len(arr) - 1) |-> IF i <= index THEN arr[i] ELSE arr[i + 1]]

----------------------------------------------------------------------------
(* JSON.parse on character sequences.  A parsed value is a record tagged by  *)
(* its type t: "object" (v: the members, in the order the object lists      *)
(* them, as records of key k and value v), "array" (v: the elements),        *)
(* "string" (v: the characters), "number" (m, e: the value m * 10^e, m the   *)
(* characters of an integer not divisible by ten, as JavaScript writes the   *)
(* double: "0" and e 0 for zero, "Infinity" or "-Infinity" and e 0 for a     *)
(* literal beyond the range of a double), "true", "false" or "null".         *)
(* A character is a string of one character; a character that is neither    *)
(* printable ASCII nor \n, \t, \r or \f is the string of its escape \uxxxx   *)
(* (one UTF-16 code unit, the hex digits in lower case), and the backquote   *)
(* is the string "<backquote>".                                              *)

Digits == <<"0","1","2","3","4","5","6","7","8","9">>

IsDigit(c) == \E k \in 1..10 : Digits[k] = c
digitValue(c) == (CHOOSE k \in 1..10 : Digits[k] = c) - 1

\* [a-zA-Z0-9_]
IsWordChar(c) ==
    \/ \E k \in 1..26 : LowerChars[k] = c \/ UpperChars[k] = c
    \/ IsDigit(c)
    \/ c = "_"

HexDigits == <<"0","1","2","3","4","5","6","7","8","9","a","b","c","d","e","f">>
UpperHexDigits == <<"0","1","2","3","4","5","6","7","8","9","A","B","C","D","E","F">>

IsHexDigit(c) == \E k \in 1..16 : HexDigits[k] = c \/ UpperHexDigits[k] = c
hexValue(c) == (CHOOSE k \in 1..16 : HexDigits[k] = c \/ UpperHexDigits[k] = c) - 1

\* the character U+0060, which a string of this module cannot hold
Backquote == "<backquote>"

\* the characters U+0020 to U+007E
Ascii ==
    <<" ","!","\"","#","$","%","&","'","(",")","*","+",",","-",".","/",
      "0","1","2","3","4","5","6","7","8","9",":",";","<","=",">","?",
      "@","A","B","C","D","E","F","G","H","I","J","K","L","M","N","O",
      "P","Q","R","S","T","U","V","W","X","Y","Z","[","\\","]","^","_",
      Backquote,"a","b","c","d","e","f","g","h","i","j","k","l","m","n","o",
      "p","q","r","s","t","u","v","w","x","y","z","{","|","}","~">>

\* the character with the code unit of the hex digits h1 h2 h3 h4 (0..15 each)
codeUnit(h1, h2, h3, h4) ==
    LET code == ((h1 * 16 + h2) * 16 + h3) * 16 + h4
    IN  IF code >= 32 /\ code <= 126 THEN Ascii[code - 31]
        ELSE IF code = 9 THEN "\t"
        ELSE IF code = 10 THEN "\n"
        ELSE IF code = 12 THEN "\f"
        ELSE IF code = 13 THEN "\r"
        ELSE "\\u" \o HexDigits[h1 + 1] \o HexDigits[h2 + 1]
                \o HexDigits[h3 + 1] \o HexDigits[h4 + 1]

\* U+0000 to U+001F, which a JSON string holds only escaped
ControlChars == {codeUnit(0, 0, h3, h4) : h3 \in 0..1, h4 \in 0..15}
IsControl(c) == c \in ControlChars

\* \s of a regular expression and of trim()
SpaceChars ==
    {" ", "\t", "\n", "\r", "\f", "\\u000b", "\\u00a0", "\\u1680", "\\u2028",
     "\\u2029", "\\u202f", "\\u205f", "\\u3000", "\\ufeff"}
        \cup {codeUnit(2, 0, 0, h4) : h4 \in 0..10}
IsSpace(c) == c \in SpaceChars

\* the whitespace JSON.parse accepts between tokens
IsJsonSpace(c) == c \in {" ", "\t", "\n", "\r"}

----------------------------------------------------------------------------
(* String.prototype.toLowerCase (ECMA-262 22.1.3.28): the string is read as  *)
(* code points, a high surrogate followed by a low surrogate being one code  *)
(* point, and each code point is replaced by its lower case of the Unicode   *)
(* Character Database (UnicodeData.txt and SpecialCasing.txt, without the    *)
(* rules of a language), here of Unicode 17.0.  The tables are strings of    *)
(* rows of hexadecimal digits.                                               *)

\* the number written by the hexadecimal digits h
RECURSIVE hexNumber(_)
hexNumber(h) ==
    IF Len(h) = 0 THEN 0
    ELSE hexNumber(SubSeq(h, 1, Len(h) - 1)) * 16
            + hexValue(SubSeq(h, Len(h), Len(h)))

\* the character of a code unit 0..65535
unit(n) == codeUnit(n \div 4096, (n \div 256) % 16, (n \div 16) % 16, n % 16)

\* the two code units of a code point above U+FFFF
surrogatePair(cp) ==
    <<unit(55296 + ((cp - 65536) \div 1024)),
      unit(56320 + ((cp - 65536) % 1024))>>

\* Simple_Lowercase_Mapping up to U+FFFF, in rows of 16 digits: the code
\* points first (5 digits), first + step, ... last (5 digits), step
\* (1 digit), have the lower case code points lower (5 digits),
\* lower + step, ...
LowerCaseRows ==
    "000410005a100061000c0000d61000e0000d8000de1000f8001000012e200101"
    \o "0013200136200133001390014720013a0014a0017620014b00178001781000ff"
    \o "001790017d20017a001810018110025300182001842001830018600186100254"
    \o "0018700187100188001890018a1002560018b0018b10018c0018e0018e1001dd"
    \o "0018f0018f100259001900019010025b00191001911001920019300193100260"
    \o "0019400194100263001960019610026900197001971002680019800198100199"
    \o "0019c0019c10026f0019d0019d1002720019f0019f100275001a0001a42001a1"
    \o "001a6001a6100280001a7001a71001a8001a9001a9100283001ac001ac1001ad"
    \o "001ae001ae100288001af001af1001b0001b1001b210028a001b3001b52001b4"
    \o "001b7001b7100292001b8001b81001b9001bc001bc1001bd001c4001c41001c6"
    \o "001c5001c51001c6001c7001c71001c9001c8001c81001c9001ca001ca1001cc"
    \o "001cb001db2001cc001de001ee2001df001f1001f11001f3001f2001f42001f3"
    \o "001f6001f6100195001f7001f71001bf001f80021e2001f9002200022010019e"
    \o "00222002322002230023a0023a102c650023b0023b10023c0023d0023d10019a"
    \o "0023e0023e102c66002410024110024200243002431001800024400244100289"
    \o "002450024510028c002460024e20024700370003722003710037600376100377"
    \o "0037f0037f1003f300386003861003ac003880038a1003ad0038c0038c1003cc"
    \o "0038e0038f1003cd00391003a11003b1003a3003ab1003c3003cf003cf1003d7"
    \o "003d8003ee2003d9003f4003f41003b8003f7003f71003f8003f9003f91003f2"
    \o "003fa003fa1003fb003fd003ff10037b004000040f100450004100042f100430"
    \o "00460004802004610048a004be20048b004c0004c01004cf004c1004cd2004c2"
    \o "004d00052e2004d10053100556100561010a0010c5102d00010c7010c7102d27"
    \o "010cd010cd102d2d013a0013ef10ab70013f0013f51013f801c8901c89101c8a"
    \o "01c9001cba1010d001cbd01cbf1010fd01e0001e94201e0101e9e01e9e1000df"
    \o "01ea001efe201ea101f0801f0f101f0001f1801f1d101f1001f2801f2f101f20"
    \o "01f3801f3f101f3001f4801f4d101f4001f5901f5f201f5101f6801f6f101f60"
    \o "01f8801f8f101f8001f9801f9f101f9001fa801faf101fa001fb801fb9101fb0"
    \o "01fba01fbb101f7001fbc01fbc101fb301fc801fcb101f7201fcc01fcc101fc3"
    \o "01fd801fd9101fd001fda01fdb101f7601fe801fe9101fe001fea01feb101f7a"
    \o "01fec01fec101fe501ff801ff9101f7801ffa01ffb101f7c01ffc01ffc101ff3"
    \o "02126021261003c90212a0212a10006b0212b0212b1000e5021320213210214e"
    \o "021600216f1021700218302183102184024b6024cf1024d002c0002c2f102c30"
    \o "02c6002c60102c6102c6202c6210026b02c6302c63101d7d02c6402c6410027d"
    \o "02c6702c6b202c6802c6d02c6d10025102c6e02c6e10027102c6f02c6f100250"
    \o "02c7002c7010025202c7202c72102c7302c7502c75102c7602c7e02c7f10023f"
    \o "02c8002ce2202c8102ceb02ced202cec02cf202cf2102cf30a6400a66c20a641"
    \o "0a6800a69a20a6810a7220a72e20a7230a7320a76e20a7330a7790a77b20a77a"
    \o "0a77d0a77d101d790a77e0a78620a77f0a78b0a78b10a78c0a78d0a78d100265"
    \o "0a7900a79220a7910a7960a7a820a7970a7aa0a7aa1002660a7ab0a7ab10025c"
    \o "0a7ac0a7ac1002610a7ad0a7ad10026c0a7ae0a7ae10026a0a7b00a7b010029e"
    \o "0a7b10a7b11002870a7b20a7b210029d0a7b30a7b310ab530a7b40a7c220a7b5"
    \o "0a7c40a7c410a7940a7c50a7c51002820a7c60a7c6101d8e0a7c70a7c920a7c8"
    \o "0a7cb0a7cb1002640a7cc0a7da20a7cd0a7dc0a7dc10019b0a7f50a7f510a7f6"
    \o "0ff210ff3a10ff41"

\* and above U+FFFF
AstralLowerCaseRows ==
    "1040010427110428104b0104d31104d810570105942105971057110579210598"
    \o "1057d105892105a41058d105912105b410595105951105bc10c8010cb2110cc0"
    \o "10d5010d65110d70118a0118bf1118c016e4016e5f116e6016ea016eb8116ebb"
    \o "1e9001e92111e922"

\* the cased letters that are not case-ignorable (DerivedCoreProperties.txt:
\* Cased without Case_Ignorable) up to U+FFFF, in rows of 10 digits: the
\* code points first (5 digits) to last (5 digits)
CasedRows ==
    "000410005a000610007a000aa000aa000b5000b5000ba000ba000c0000d6000d8000f6"
    \o "000f8001ba001bc001bf001c40029300296002af003700037300376003770037b0037d"
    \o "0037f0037f0038600386003880038a0038c0038c0038e003a1003a3003f5003f700481"
    \o "0048a0052f00531005560056000588010a0010c5010c7010c7010cd010cd010d0010fa"
    \o "010fd010ff013a0013f5013f8013fd01c8001c8a01c9001cba01cbd01cbf01d0001d2b"
    \o "01d6b01d7701d7901d9a01e0001f1501f1801f1d01f2001f4501f4801f4d01f5001f57"
    \o "01f5901f5901f5b01f5b01f5d01f5d01f5f01f7d01f8001fb401fb601fbc01fbe01fbe"
    \o "01fc201fc401fc601fcc01fd001fd301fd601fdb01fe001fec01ff201ff401ff601ffc"
    \o "021020210202107021070210a021130211502115021190211d02124021240212602126"
    \o "02128021280212a0212d0212f0213402139021390213c0213f02145021490214e0214e"
    \o "021600217f0218302184024b6024e902c0002c7b02c7e02ce402ceb02cee02cf202cf3"
    \o "02d0002d2502d2702d2702d2d02d2d0a6400a66d0a6800a69b0a7220a76f0a7710a787"
    \o "0a78b0a78e0a7900a7dc0a7f50a7f60a7fa0a7fa0ab300ab5a0ab600ab680ab700abbf"
    \o "0fb000fb060fb130fb170ff210ff3a0ff410ff5a"

\* and above U+FFFF
AstralCasedRows ==
    "104001044f104b0104d3104d8104fb105701057a1057c1058a1058c105921059410595"
    \o "10597105a1105a3105b1105b3105b9105bb105bc10c8010cb210cc010cf210d5010d65"
    \o "10d7010d85118a0118df16e4016e7f16ea016eb816ebb16ed31d4001d4541d4561d49c"
    \o "1d49e1d49f1d4a21d4a21d4a51d4a61d4a91d4ac1d4ae1d4b91d4bb1d4bb1d4bd1d4c3"
    \o "1d4c51d5051d5071d50a1d50d1d5141d5161d51c1d51e1d5391d53b1d53e1d5401d544"
    \o "1d5461d5461d54a1d5501d5521d6a51d6a81d6c01d6c21d6da1d6dc1d6fa1d6fc1d714"
    \o "1d7161d7341d7361d74e1d7501d76e1d7701d7881d78a1d7a81d7aa1d7c21d7c41d7cb"
    \o "1df001df091df0b1df1e1df251df2a1e9001e9431f1301f1491f1501f1691f1701f189"

\* the case-ignorable code points (DerivedCoreProperties.txt:
\* Case_Ignorable) up to U+FFFF, in rows of 10 digits
CaseIgnorableRows ==
    "00027000270002e0002e0003a0003a0005e0005e0006000060000a8000a8000ad000ad"
    \o "000af000af000b4000b4000b7000b8002b00036f00374003750037a0037a0038400385"
    \o "0038700387004830048900559005590055f0055f00591005bd005bf005bf005c1005c2"
    \o "005c4005c5005c7005c7005f4005f40060000605006100061a0061c0061c0064000640"
    \o "0064b0065f0067000670006d6006dd006df006e8006ea006ed0070f0070f0071100711"
    \o "007300074a007a6007b0007eb007f5007fa007fa007fd007fd008160082d008590085b"
    \o "00888008880089000891008970089f008c9009020093a0093a0093c0093c0094100948"
    \o "0094d0094d0095100957009620096300971009710098100981009bc009bc009c1009c4"
    \o "009cd009cd009e2009e3009fe009fe00a0100a0200a3c00a3c00a4100a4200a4700a48"
    \o "00a4b00a4d00a5100a5100a7000a7100a7500a7500a8100a8200abc00abc00ac100ac5"
    \o "00ac700ac800acd00acd00ae200ae300afa00aff00b0100b0100b3c00b3c00b3f00b3f"
    \o "00b4100b4400b4d00b4d00b5500b5600b6200b6300b8200b8200bc000bc000bcd00bcd"
    \o "00c0000c0000c0400c0400c3c00c3c00c3e00c4000c4600c4800c4a00c4d00c5500c56"
    \o "00c6200c6300c8100c8100cbc00cbc00cbf00cbf00cc600cc600ccc00ccd00ce200ce3"
    \o "00d0000d0100d3b00d3c00d4100d4400d4d00d4d00d6200d6300d8100d8100dca00dca"
    \o "00dd200dd400dd600dd600e3100e3100e3400e3a00e4600e4e00eb100eb100eb400ebc"
    \o "00ec600ec600ec800ece00f1800f1900f3500f3500f3700f3700f3900f3900f7100f7e"
    \o "00f8000f8400f8600f8700f8d00f9700f9900fbc00fc600fc60102d010300103201037"
    \o "010390103a0103d0103e01058010590105e01060010710107401082010820108501086"
    \o "0108d0108d0109d0109d010fc010fc0135d0135f017120171401732017330175201753"
    \o "0177201773017b4017b5017b7017bd017c6017c6017c9017d3017d7017d7017dd017dd"
    \o "0180b0180f01843018430188501886018a9018a9019200192201927019280193201932"
    \o "019390193b01a1701a1801a1b01a1b01a5601a5601a5801a5e01a6001a6001a6201a62"
    \o "01a6501a6c01a7301a7c01a7f01a7f01aa701aa701ab001add01ae001aeb01b0001b03"
    \o "01b3401b3401b3601b3a01b3c01b3c01b4201b4201b6b01b7301b8001b8101ba201ba5"
    \o "01ba801ba901bab01bad01be601be601be801be901bed01bed01bef01bf101c2c01c33"
    \o "01c3601c3701c7801c7d01cd001cd201cd401ce001ce201ce801ced01ced01cf401cf4"
    \o "01cf801cf901d2c01d6a01d7801d7801d9b01dff01fbd01fbd01fbf01fc101fcd01fcf"
    \o "01fdd01fdf01fed01fef01ffd01ffe0200b0200f020180201902024020240202702027"
    \o "0202a0202e0206002064020660206f02071020710207f0207f020900209c020d0020f0"
    \o "02c7c02c7d02cef02cf102d6f02d6f02d7f02d7f02de002dff02e2f02e2f0300503005"
    \o "0302a0302d03031030350303b0303b030990309e030fc030fe0a0150a0150a4f80a4fd"
    \o "0a60c0a60c0a66f0a6720a6740a67d0a67f0a67f0a69c0a69f0a6f00a6f10a7000a721"
    \o "0a7700a7700a7880a78a0a7f10a7f40a7f80a7f90a8020a8020a8060a8060a80b0a80b"
    \o "0a8250a8260a82c0a82c0a8c40a8c50a8e00a8f10a8ff0a8ff0a9260a92d0a9470a951"
    \o "0a9800a9820a9b30a9b30a9b60a9b90a9bc0a9bd0a9cf0a9cf0a9e50a9e60aa290aa2e"
    \o "0aa310aa320aa350aa360aa430aa430aa4c0aa4c0aa700aa700aa7c0aa7c0aab00aab0"
    \o "0aab20aab40aab70aab80aabe0aabf0aac10aac10aadd0aadd0aaec0aaed0aaf30aaf4"
    \o "0aaf60aaf60ab5b0ab5f0ab690ab6b0abe50abe50abe80abe80abed0abed0fb1e0fb1e"
    \o "0fbb20fbc20fe000fe0f0fe130fe130fe200fe2f0fe520fe520fe550fe550feff0feff"
    \o "0ff070ff070ff0e0ff0e0ff1a0ff1a0ff3e0ff3e0ff400ff400ff700ff700ff9e0ff9f"
    \o "0ffe30ffe30fff90fffb"

\* and above U+FFFF
AstralCaseIgnorableRows ==
    "101fd101fd102e0102e0103761037a107801078510787107b0107b2107ba10a0110a03"
    \o "10a0510a0610a0c10a0f10a3810a3a10a3f10a3f10ae510ae610d2410d2710d4e10d4e"
    \o "10d6910d6d10d6f10d6f10eab10eac10ec510ec510efa10eff10f4610f5010f8210f85"
    \o "11001110011103811046110701107011073110741107f11081110b3110b6110b9110ba"
    \o "110bd110bd110c2110c2110cd110cd1110011102111271112b1112d111341117311173"
    \o "1118011181111b6111be111c9111cc111cf111cf1122f1123111234112341123611237"
    \o "1123e1123e1124111241112df112df112e3112ea11300113011133b1133c1134011340"
    \o "113661136c1137011374113bb113c0113ce113ce113d0113d0113d2113d2113e1113e2"
    \o "114381143f114421144411446114461145e1145e114b3114b8114ba114ba114bf114c0"
    \o "114c2114c3115b2115b5115bc115bd115bf115c0115dc115dd116331163a1163d1163d"
    \o "1163f11640116ab116ab116ad116ad116b0116b5116b7116b71171d1171d1171f1171f"
    \o "1172211725117271172b1182f11837118391183a1193b1193c1193e1193e1194311943"
    \o "119d4119d7119da119db119e0119e011a0111a0a11a3311a3811a3b11a3e11a4711a47"
    \o "11a5111a5611a5911a5b11a8a11a9611a9811a9911b6011b6011b6211b6411b6611b66"
    \o "11c3011c3611c3811c3d11c3f11c3f11c9211ca711caa11cb011cb211cb311cb511cb6"
    \o "11d3111d3611d3a11d3a11d3c11d3d11d3f11d4511d4711d4711d9011d9111d9511d95"
    \o "11d9711d9711dd911dd911ef311ef411f0011f0111f3611f3a11f4011f4011f4211f42"
    \o "11f5a11f5a134301344013447134551611e161291612d1612f16af016af416b3016b36"
    \o "16b4016b4316d4016d4216d6b16d6c16f4f16f4f16f8f16f9f16fe016fe116fe316fe4"
    \o "16ff216ff31aff01aff31aff51affb1affd1affe1bc9d1bc9e1bca01bca31cf001cf2d"
    \o "1cf301cf461d1671d1691d1731d1821d1851d18b1d1aa1d1ad1d2421d2441da001da36"
    \o "1da3b1da6c1da751da751da841da841da9b1da9f1daa11daaf1e0001e0061e0081e018"
    \o "1e01b1e0211e0231e0241e0261e02a1e0301e06d1e08f1e08f1e1301e13d1e2ae1e2ae"
    \o "1e2ec1e2ef1e4eb1e4ef1e5ee1e5ef1e6e31e6e31e6e61e6e61e6ee1e6ef1e6f51e6f5"
    \o "1e6ff1e6ff1e8d01e8d61e9441e94b1f3fb1f3ffe0001e0001e0020e007fe0100e01ef"

\* the number at the digits a..b of row k of a table with rows of `width`
\* digits
field(table, width, k, a, b) ==
    hexNumber(SubSeq(table, (k - 1) * width + a, (k - 1) * width + b))

\* the lower case of the code points first + a * step .. first + b * step,
\* as a function of the character (astral: of the surrogate pair)
RECURSIVE lowerCaseOfRow(_, _, _, _, _, _)
lowerCaseOfRow(first, step, lower, astral, a, b) ==
    IF a = b
    THEN IF astral
         THEN surrogatePair(first + a * step) :> surrogatePair(lower + a * step)
         ELSE unit(first + a * step) :> unit(lower + a * step)
    ELSE lowerCaseOfRow(first, step, lower, astral, a, (a + b) \div 2)
            @@ lowerCaseOfRow(first, step, lower, astral, (a + b) \div 2 + 1, b)

\* the lower case of the code points of the rows i..j of a table
RECURSIVE lowerCaseOfRows(_, _, _, _)
lowerCaseOfRows(table, astral, i, j) ==
    IF i = j
    THEN lowerCaseOfRow(field(table, 16, i, 1, 5), field(table, 16, i, 11, 11),
                        field(table, 16, i, 12, 16), astral, 0,
                        (field(table, 16, i, 6, 10) - field(table, 16, i, 1, 5))
                            \div field(table, 16, i, 11, 11))
    ELSE lowerCaseOfRows(table, astral, i, (i + j) \div 2)
            @@ lowerCaseOfRows(table, astral, (i + j) \div 2 + 1, j)

lowerCaseOfTable(table, astral) ==
    lowerCaseOfRows(table, astral, 1, Len(table) \div 16)

\* the characters, and the surrogate pairs, of the code points of a table
unitsOf(table) ==
    UNION {{unit(n) : n \in field(table, 10, k, 1, 5)..field(table, 10, k, 6, 10)} :
            k \in 1..(Len(table) \div 10)}
pairsOf(table) ==
    UNION {{surrogatePair(n) :
                n \in field(table, 10, k, 1, 5)..field(table, 10, k, 6, 10)} :
            k \in 1..(Len(table) \div 10)}

\* the tables by character: the lower case of the characters and of the
\* surrogate pairs that have one, and the two classes
UnicodeCase ==
    [lowerCaseOfUnit |-> lowerCaseOfTable(LowerCaseRows, FALSE),
     lowerCaseOfPair |-> lowerCaseOfTable(AstralLowerCaseRows, TRUE),
     casedUnits |-> unitsOf(CasedRows),
     casedPairs |-> pairsOf(AstralCasedRows),
     caseIgnorableUnits |-> unitsOf(CaseIgnorableRows),
     caseIgnorablePairs |-> pairsOf(AstralCaseIgnorableRows)]

\* the same with the characters and the pairs that have a lower case
withUpperCase(u) ==
    [lowerCaseOfUnit |-> u.lowerCaseOfUnit,
     lowerCaseOfPair |-> u.lowerCaseOfPair,
     upperCaseUnits |-> DOMAIN u.lowerCaseOfUnit,
     upperCasePairs |-> DOMAIN u.lowerCaseOfPair,
     casedUnits |-> u.casedUnits,
     casedPairs |-> u.casedPairs,
     caseIgnorableUnits |-> u.caseIgnorableUnits,
     caseIgnorablePairs |-> u.caseIgnorablePairs]

Unicode == withUpperCase(UnicodeCase)

\* going from position j in direction d (1: forward, -1: backward) over the
\* case-ignorable code points, the first other code point is a cased letter
RECURSIVE casedLetterNext(_, _, _, _)
casedLetterNext(s, j, d, u) ==
    LET high == IF d = 1 THEN j ELSE j - 1
    IN  IF j < 1 \/ j > Len(s) THEN FALSE
        ELSE IF /\ high >= 1 /\ high < Len(s)
                /\ <<s[high], s[high + 1]>> \in u.caseIgnorablePairs
        THEN casedLetterNext(s, j + 2 * d, d, u)
        ELSE IF /\ high >= 1 /\ high < Len(s)
                /\ <<s[high], s[high + 1]>> \in u.casedPairs
        THEN TRUE
        ELSE IF s[j] \in u.caseIgnorableUnits
        THEN casedLetterNext(s, j + d, d, u)
        ELSE s[j] \in u.casedUnits

\* Final_Sigma (SpecialCasing.txt): the capital sigma at position i comes
\* after a cased letter and not before one
isFinalSigma(s, i, u) ==
    \A d \in {-1, 1} : casedLetterNext(s, i + d, d, u) <=> d = -1

\* the lower case of the code point that begins at position i of s; nothing
\* at the second code unit of a surrogate pair that has a lower case
lowerCaseAt(s, i, u) ==
    IF i > 1 /\ <<s[i - 1], s[i]>> \in u.upperCasePairs THEN <<>>
    ELSE IF i < Len(s) /\ <<s[i], s[i + 1]>> \in u.upperCasePairs
    THEN u.lowerCaseOfPair[<<s[i], s[i + 1]>>]
    ELSE IF s[i] = "\\u0130" THEN <<"i", "\\u0307">>
    ELSE IF s[i] = "\\u03a3"
    THEN <<IF isFinalSigma(s, i, u) THEN "\\u03c2" ELSE "\\u03c3">>
    ELSE IF s[i] \in u.upperCaseUnits THEN <<u.lowerCaseOfUnit[s[i]]>>
    ELSE <<s[i]>>

\* the lower case of the positions a..b of s
RECURSIVE lowerCaseOf(_, _, _, _)
lowerCaseOf(s, a, b, u) ==
    IF a > b THEN <<>>
    ELSE IF a = b THEN lowerCaseAt(s, a, u)
    ELSE lowerCaseOf(s, a, (a + b) \div 2, u)
            \o lowerCaseOf(s, (a + b) \div 2 + 1, b, u)

\* String.prototype.toLowerCase
toLowerCase(s) == lowerCaseOf(s, 1, Len(s), Unicode)

----------------------------------------------------------------------------
(* The values JSON.parse returns *)

JNull == [t |-> "null"]
JString(chars) == [t |-> "string", v |-> chars]
JArray(elements) == [t |-> "array", v |-> elements]
JObject(members) == [t |-> "object", v |-> members]

PFail == [ok |-> FALSE, next |-> 0, value |-> JNull]
POk(next, value) == [ok |-> TRUE, next |-> next, value |-> value]

RECURSIVE skipJsonSpace(_, _)
skipJsonSpace(s, i) ==
    IF i <= Len(s) /\ IsJsonSpace(s[i]) THEN skipJsonSpace(s, i + 1) ELSE i

RECURSIVE skipSpace(_, _)
skipSpace(s, i) ==
    IF i <= Len(s) /\ IsSpace(s[i]) THEN skipSpace(s, i + 1) ELSE i

RECURSIVE skipDigits(_, _)
skipDigits(s, i) ==
    IF i <= Len(s) /\ IsDigit(s[i]) THEN skipDigits(s, i + 1) ELSE i

RECURSIVE skipWord(_, _)
skipWord(s, i) ==
    IF i <= Len(s) /\ IsWordChar(s[i]) THEN skipWord(s, i + 1) ELSE i

\* s has pat at index i
startsWithAt(s, i, pat) ==
    /\ i + Len(pat) - 1 <= Len(s)
    /\ \A k \in 1..Len(pat) : s[i + k - 1] = pat[k]

\* the characters of a string literal from index j (after its opening quote)
RECURSIVE scanString(_, _, _)
scanString(s, j, acc) ==
    IF j > Len(s) THEN PFail
    ELSE IF s[j] = "\"" THEN POk(j + 1, JString(acc))
    ELSE IF s[j] = "\\"
    THEN IF j + 1 > Len(s) THEN PFail
         ELSE CASE s[j + 1] = "\"" -> scanString(s, j + 2, Append(acc, "\""))
                [] s[j + 1] = "\\" -> scanString(s, j + 2, Append(acc, "\\"))
                [] s[j + 1] = "/" -> scanString(s, j + 2, Append(acc, "/"))
                [] s[j + 1] = "n" -> scanString(s, j + 2, Append(acc, "\n"))
                [] s[j + 1] = "t" -> scanString(s, j + 2, Append(acc, "\t"))
                [] s[j + 1] = "r" -> scanString(s, j + 2, Append(acc, "\r"))
                [] s[j + 1] = "f" -> scanString(s, j + 2, Append(acc, "\f"))
                [] s[j + 1] = "b" ->
                        scanString(s, j + 2, Append(acc, codeUnit(0, 0, 0, 8)))
                [] s[j + 1] = "u" ->
                        IF j + 5 <= Len(s) /\ \A k \in 2..5 : IsHexDigit(s[j + k])
                        THEN scanString(s, j + 6,
                                Append(acc, codeUnit(hexValue(s[j + 2]), hexValue(s[j + 3]),
                                                     hexValue(s[j + 4]), hexValue(s[j + 5]))))
                        ELSE PFail
                [] OTHER -> PFail
    ELSE IF IsControl(s[j]) THEN PFail
    ELSE scanString(s, j + 1, Append(acc, s[j]))

\* the value of the digits s[from..to], or cap when it is larger
RECURSIVE cappedValue(_, _, _, _)
cappedValue(s, from, to, cap) ==
    IF to < from THEN 0
    ELSE LET value == 10 * cappedValue(s, from, to - 1, cap) + digitValue(s[to])
         IN  IF value > cap THEN cap ELSE value

\* Natural numbers of any size, for the conversion of a number literal to a
\* double: the decimal digits 0..9 as integers, the lowest first, no zero at
\* the top; <<>> is zero. The operators that carry from digit to digit work
\* on the lower half of a range of digits and then on the upper half.
RECURSIVE bnTopIn(_, _, _)
bnTopIn(x, lo, hi) ==
    IF lo > hi THEN 0
    ELSE IF lo = hi THEN (IF x[lo] # 0 THEN lo ELSE 0)
    ELSE LET upper == bnTopIn(x, (lo + hi) \div 2 + 1, hi)
         IN  IF upper # 0 THEN upper ELSE bnTopIn(x, lo, (lo + hi) \div 2)

bnTrim(x) == SubSeq(x, 1, bnTopIn(x, 1, Len(x)))

RECURSIVE bnOfInt(_)
bnOfInt(c) == IF c = 0 THEN <<>> ELSE <<c % 10>> \o bnOfInt(c \div 10)

RECURSIVE bnCompareIn(_, _, _, _)
bnCompareIn(x, y, lo, hi) ==
    IF lo > hi THEN 0
    ELSE IF lo = hi
    THEN (IF x[lo] > y[lo] THEN 1 ELSE IF x[lo] < y[lo] THEN -1 ELSE 0)
    ELSE LET upper == bnCompareIn(x, y, (lo + hi) \div 2 + 1, hi)
         IN  IF upper # 0 THEN upper
             ELSE bnCompareIn(x, y, lo, (lo + hi) \div 2)

\* -1, 0 or 1 as x is below, equal to or above y
bnCompare(x, y) ==
    IF Len(x) > Len(y) THEN 1
    ELSE IF Len(x) < Len(y) THEN -1
    ELSE bnCompareIn(x, y, 1, Len(x))

\* the digits d of a range and the carry c out of it
bnJoin(lower, upper) == [d |-> lower.d \o upper.d, c |-> upper.c]

RECURSIVE bnTimesIn(_, _, _, _, _)
bnTimesIn(x, c, lo, hi, carry) ==
    IF lo = hi
    THEN [d |-> <<(x[lo] * c + carry) % 10>>, c |-> (x[lo] * c + carry) \div 10]
    ELSE LET lower == bnTimesIn(x, c, lo, (lo + hi) \div 2, carry)
         IN  bnJoin(lower, bnTimesIn(x, c, (lo + hi) \div 2 + 1, hi, lower.c))

\* x * c for an integer c of at most eight digits
bnTimes(x, c) ==
    IF c = 0 \/ x = <<>> THEN <<>>
    ELSE LET product == bnTimesIn(x, c, 1, Len(x), 0)
         IN  product.d \o bnOfInt(product.c)

bnDigit(x, i) == IF i <= Len(x) THEN x[i] ELSE 0

RECURSIVE bnPlusIn(_, _, _, _, _)
bnPlusIn(x, y, lo, hi, carry) ==
    IF lo = hi
    THEN [d |-> <<(bnDigit(x, lo) + bnDigit(y, lo) + carry) % 10>>,
          c |-> (bnDigit(x, lo) + bnDigit(y, lo) + carry) \div 10]
    ELSE LET lower == bnPlusIn(x, y, lo, (lo + hi) \div 2, carry)
         IN  bnJoin(lower, bnPlusIn(x, y, (lo + hi) \div 2 + 1, hi, lower.c))

bnPlus(x, y) ==
    IF x = <<>> THEN y
    ELSE IF y = <<>> THEN x
    ELSE LET sum == bnPlusIn(x, y, 1, IF Len(x) > Len(y) THEN Len(x) ELSE Len(y), 0)
         IN  sum.d \o bnOfInt(sum.c)

RECURSIVE bnMinusIn(_, _, _, _, _)
bnMinusIn(x, y, lo, hi, borrow) ==
    IF lo = hi
    THEN [d |-> <<(x[lo] - bnDigit(y, lo) - borrow + 10) % 10>>,
          c |-> IF x[lo] - bnDigit(y, lo) - borrow < 0 THEN 1 ELSE 0]
    ELSE LET lower == bnMinusIn(x, y, lo, (lo + hi) \div 2, borrow)
         IN  bnJoin(lower, bnMinusIn(x, y, (lo + hi) \div 2 + 1, hi, lower.c))

\* x - y for x >= y
bnMinus(x, y) ==
    IF x = <<>> THEN <<>> ELSE bnTrim(bnMinusIn(x, y, 1, Len(x), 0).d)

\* x * 10^n
bnShift(x, n) == IF x = <<>> THEN <<>> ELSE [i \in 1..n |-> 0] \o x

\* x * 2^n
RECURSIVE bnTimesPowerOf2(_, _)
bnTimesPowerOf2(x, n) ==
    IF x = <<>> \/ n = 0 THEN x
    ELSE IF n >= 20 THEN bnTimesPowerOf2(bnTimes(x, 1048576), n - 20)
    ELSE bnTimesPowerOf2(bnTimes(x, 2), n - 1)

\* x * 5^n
RECURSIVE bnTimesPowerOf5(_, _)
bnTimesPowerOf5(x, n) ==
    IF x = <<>> \/ n = 0 THEN x
    ELSE IF n >= 9 THEN bnTimesPowerOf5(bnTimes(x, 1953125), n - 9)
    ELSE bnTimesPowerOf5(bnTimes(x, 5), n - 1)

\* how often y goes into r < 10 * y, and what is left
RECURSIVE bnFit(_, _, _)
bnFit(r, y, d) ==
    IF bnCompare(r, y) < 0 THEN [q |-> d, r |-> r]
    ELSE bnFit(bnMinus(r, y), y, d + 1)

\* long division of x by y from the digit x[i] down, with the quotient q and
\* the rest r so far; the rest is looked at in every step, which has it
\* computed before the next digit is taken
RECURSIVE bnDivideFrom(_, _, _, _, _)
bnDivideOn(x, y, i, q, fit) ==
    bnDivideFrom(x, y, i - 1,
                 IF fit.q = 0 /\ q = <<>> THEN <<>> ELSE <<fit.q>> \o q, fit.r)

bnDivideFrom(x, y, i, q, r) ==
    IF i = 0 \/ bnCompare(r, y) >= 0 THEN [q |-> q, r |-> r]
    ELSE bnDivideOn(x, y, i, q, bnFit(bnTrim(<<x[i]>> \o r), y, 0))

\* the quotient and the rest of x by y # 0
bnDivide(x, y) ==
    IF Len(x) < Len(y) THEN [q |-> <<>>, r |-> x]
    ELSE bnDivideFrom(x, y, Len(x) - Len(y) + 1, <<>>,
                      SubSeq(x, Len(x) - Len(y) + 2, Len(x)))

\* 2^52 = 4503599627370496 and 2^53 = 9007199254740992
TwoTo52 == <<6, 9, 4, 0, 7, 3, 7, 2, 6, 9, 9, 5, 3, 0, 5, 4>>
TwoTo53 == <<2, 9, 9, 0, 4, 7, 4, 5, 2, 9, 9, 1, 7, 0, 0, 9>>

\* the quotient and rest of (x / y) / 2^q
bnScaled(x, y, q) ==
    bnDivide(IF q < 0 THEN bnTimesPowerOf2(x, -q) ELSE x,
             IF q > 0 THEN bnTimesPowerOf2(y, q) ELSE y)

\* the binary exponent of the double next to x / y: the q from -1074 on
\* with 2^52 <= (x / y) / 2^q < 2^53, or -1074; quotient is that of
\* (x / y) / 2^q
RECURSIVE binaryExponent(_, _, _)
binaryExponentBy(x, y, q, quotient) ==
    IF bnCompare(quotient, TwoTo53) >= 0 THEN binaryExponent(x, y, q + 1)
    ELSE IF q > -1074 /\ bnCompare(quotient, TwoTo52) < 0
    THEN binaryExponent(x, y, q - 1)
    ELSE q

binaryExponent(x, y, q) == binaryExponentBy(x, y, q, bnScaled(x, y, q).q)

\* the quotient of scaled rounded to the nearest integer, a tie to the even
\* one: half is -1, 0 or 1 as the rest is below, at or above half the divisor
roundedBy(scaled, half) ==
    IF half > 0 \/ (half = 0 /\ scaled.q # <<>> /\ scaled.q[1] % 2 = 1)
    THEN bnPlus(scaled.q, <<1>>) ELSE scaled.q

roundedOf(scaled, divisor) ==
    roundedBy(scaled, bnCompare(bnTimes(scaled.r, 2), divisor))

\* (x / y) / 2^q rounded to the nearest integer, a tie to the even one
roundedAt(x, y, q) ==
    roundedOf(bnScaled(x, y, q), IF q > 0 THEN bnTimesPowerOf2(y, q) ELSE y)

\* k * 2^q with k below 2^53
normalDouble(k, q) ==
    IF bnCompare(k, TwoTo53) = 0 THEN [k |-> TwoTo52, q |-> q + 1]
    ELSE [k |-> k, q |-> q]

nearestAt(x, y, q) == normalDouble(roundedAt(x, y, q), q)

\* the double next to x / y, its binary exponent sought from guess on
nearestTo(x, y, guess) ==
    nearestAt(x, y, binaryExponent(x, y, IF guess < -1074 THEN -1074 ELSE guess))

\* the double next to digits * 10^e (digits # 0, of the size 10^magnitude):
\* k * 2^q with k an integer below 2^53
nearestDouble(digits, e) ==
    nearestTo(bnShift(digits, IF e > 0 THEN e ELSE 0),
              bnShift(<<1>>, IF e < 0 THEN -e ELSE 0),
              (((Len(digits) + e - 1) * 3322) \div 1000) - 52)

\* x with all digits below the i-th set to zero
bnCutBelow(x, i) == [j \in 1..Len(x) |-> IF j < i THEN 0 ELSE x[j]]

\* c lies between low and high, the ends included when closed
inside(c, low, high, closed) ==
    \/ bnCompare(low, c) < 0 /\ bnCompare(c, high) < 0
    \/ closed /\ (bnCompare(low, c) = 0 \/ bnCompare(c, high) = 0)

\* of down <= value <= up the one nearer to value, of two as near the one
\* with an even digit at i; nearer is -1, 0 or 1 as down is nearer, as near
\* or further
nearerBy(down, up, i, nearer) ==
    IF nearer < 0 \/ (nearer = 0 /\ down[i] % 2 = 0) THEN down ELSE up

\* the shortest decimal that the double k * 2^q is the nearest double of,
\* the one next to the double when there are two: its digits and exponent.
\* With all numbers in units of 2^(q-2): the double is 4k, the decimals that
\* round to it lie between 4k - 2 (4k - 1 when k is 2^52 and the doubles
\* below are half as far apart) and 4k + 2, the ends included when k is even.
\* shortestFrom tries the multiples of 10^(i-1) next to value, down below
\* and up above it, from the highest digit on.
RECURSIVE shortestFrom(_, _, _, _, _)
shortestAmong(value, low, high, closed, i, down, up, downInside, upInside) ==
    IF downInside /\ upInside
    THEN nearerBy(down, up, i,
                  bnCompare(bnMinus(value, down), bnMinus(up, value)))
    ELSE IF downInside THEN down
    ELSE IF upInside THEN up
    ELSE shortestFrom(value, low, high, closed, i - 1)

shortestBetween(value, low, high, closed, i, down, up) ==
    shortestAmong(value, low, high, closed, i, down, up,
                  inside(down, low, high, closed), inside(up, low, high, closed))

shortestAt(value, low, high, closed, i, down) ==
    shortestBetween(value, low, high, closed, i, down,
                    bnPlus(down, bnShift(<<1>>, i - 1)))

shortestFrom(value, low, high, closed, i) ==
    IF i = 1 THEN value
    ELSE shortestAt(value, low, high, closed, i, bnTrim(bnCutBelow(value, i)))

\* the place of the lowest digit of x[lo..hi] that is not zero, or 0
RECURSIVE bnBottomIn(_, _, _)
bnBottomInUpper(x, lo, hi, lower) ==
    IF lower # 0 THEN lower ELSE bnBottomIn(x, (lo + hi) \div 2 + 1, hi)

bnBottomIn(x, lo, hi) ==
    IF lo > hi THEN 0
    ELSE IF lo = hi THEN (IF x[lo] # 0 THEN lo ELSE 0)
    ELSE bnBottomInUpper(x, lo, hi, bnBottomIn(x, lo, (lo + hi) \div 2))

\* x in units of 2^(q-2), as an integer: times 2^(q-2), or times 5^(2-q)
\* with the decimal point 2 - q places to the left
inUnits(x, q) ==
    IF q - 2 >= 0 THEN bnTimesPowerOf2(x, q - 2) ELSE bnTimesPowerOf5(x, 2 - q)

\* chosen without its zeros at the bottom
withoutZeros(chosen, zeros, q) ==
    [digits |-> SubSeq(chosen, zeros + 1, Len(chosen)),
     e |-> zeros + (IF q - 2 >= 0 THEN 0 ELSE q - 2)]

shortestOf(chosen, q) ==
    withoutZeros(chosen, bnBottomIn(chosen, 1, Len(chosen)) - 1, q)

shortestIn(value, low, high, closed, q) ==
    shortestOf(shortestFrom(value, low, high, closed, Len(value)), q)

shortestAround(k, q, four, narrow) ==
    shortestIn(inUnits(four, q),
               inUnits(bnMinus(four, IF narrow THEN <<1>> ELSE <<2>>), q),
               inUnits(bnPlus(four, <<2>>), q),
               k[1] % 2 = 0, q)

shortestDecimal(k, q) ==
    shortestAround(k, q, bnTimes(k, 4), bnCompare(k, TwoTo52) = 0 /\ q > -1074)

\* the characters of a mantissa: the sign and the digits, the highest first
mantissa(neg, digits) ==
    (IF neg THEN <<"-">> ELSE <<>>)
        \o [i \in 1..Len(digits) |-> Digits[digits[Len(digits) + 1 - i] + 1]]

Infinity == <<"I","n","f","i","n","i","t","y">>
Zero == [t |-> "number", m |-> <<"0">>, e |-> 0]

\* the number with the sign neg and the value decimal.digits * 10^decimal.e
numberOf(neg, decimal) ==
    [t |-> "number", m |-> mantissa(neg, decimal.digits), e |-> decimal.e]

infinite(neg) ==
    [t |-> "number", m |-> (IF neg THEN <<"-">> ELSE <<>>) \o Infinity, e |-> 0]

\* the double k * 2^q as JavaScript writes it
writtenDouble(neg, double) ==
    IF double.k = <<>> THEN Zero
    ELSE IF double.q > 971 THEN infinite(neg)
    ELSE numberOf(neg, shortestDecimal(double.k, double.q))

\* the IEEE double that JSON.parse makes of the literal with the sign neg and
\* the value digits * 10^e (the digits as integers, the lowest first, no zero
\* at either end, <<>> for zero), written as JavaScript writes a double: with
\* the fewest digits that read back as the same double.  A literal of up to
\* 15 digits between 1e-307 and 1e308 is that writing of its double already;
\* beyond 2^1024 - 2^970 = 1.797693134862315708...e308 the double is
\* Infinity, up to 2^-1075 = 2.470328229206232720...e-324 it is zero.
toDouble(neg, digits, e) ==
    IF digits = <<>> \/ Len(digits) + e - 1 < -324 THEN Zero
    ELSE IF Len(digits) + e - 1 > 308 THEN infinite(neg)
    ELSE IF Len(digits) <= 15 /\ Len(digits) + e - 1 >= -307
                              /\ Len(digits) + e - 1 <= 307
    THEN numberOf(neg, [digits |-> digits, e |-> e])
    ELSE writtenDouble(neg, nearestDouble(digits, e))

\* a number literal at index i: -?(0|[1-9][0-9]*)(\.[0-9]+)?([eE][+-]?[0-9]+)?
parseNumber(s, i) ==
    LET n == Len(s)
        neg == i <= n /\ s[i] = "-"
        intStart == IF neg THEN i + 1 ELSE i
        intEnd == IF intStart <= n /\ s[intStart] = "0" THEN intStart + 1
                  ELSE skipDigits(s, intStart)
        hasFrac == intEnd <= n /\ s[intEnd] = "."
        fracEnd == IF hasFrac THEN skipDigits(s, intEnd + 1) ELSE intEnd
        hasExp == fracEnd <= n /\ s[fracEnd] \in {"e", "E"}
        signed == hasExp /\ fracEnd + 1 <= n /\ s[fracEnd + 1] \in {"+", "-"}
        expNeg == signed /\ s[fracEnd + 1] = "-"
        expStart == IF signed THEN fracEnd + 2 ELSE fracEnd + 1
        expEnd == IF hasExp THEN skipDigits(s, expStart) ELSE fracEnd
        fracLen == IF hasFrac THEN fracEnd - intEnd - 1 ELSE 0
        written == SubSeq(s, intStart, intEnd - 1)
                    \o (IF hasFrac THEN SubSeq(s, intEnd + 1, fracEnd - 1) ELSE <<>>)
        all == [k \in 1..Len(written) |-> digitValue(written[Len(written) + 1 - k])]
        bottom == bnBottomIn(all, 1, Len(all))
        \* the exponent as written; with one of Len(s) + 325 or more the
        \* number is beyond 1e308 or below 1e-324 whatever the digits before
        \* it, fewer than Len(s), so that it is read up to there
        exponent == IF hasExp
                    THEN (IF expNeg THEN -1 ELSE 1)
                            * cappedValue(s, expStart, expEnd - 1, Len(s) + 325)
                    ELSE 0
    IN  IF intEnd = intStart \/ (hasFrac /\ fracEnd = intEnd + 1)
           \/ (hasExp /\ expEnd = expStart)
        THEN PFail
        ELSE POk(expEnd,
                 IF bottom = 0 THEN Zero
                 ELSE toDouble(neg, SubSeq(all, bottom, bnTopIn(all, 1, Len(all))),
                               exponent - fracLen + bottom - 1))

\* digit strings without leading zeros: a is the smaller number
digitsLess(a, b) ==
    \/ Len(a) < Len(b)
    \/ /\ Len(a) = Len(b)
       /\ \E i \in 1..Len(a) :
            /\ digitValue(a[i]) < digitValue(b[i])
            /\ \A j \in 1..(i - 1) : a[j] = b[j]

\* the largest integer-like key, 2^32 - 2
MaxIndexKey == <<"4","2","9","4","9","6","7","2","9","4">>

\* an integer-like key: the canonical writing of an integer from 0 to 2^32 - 2
IsIndexKey(key) ==
    /\ key # <<>>
    /\ \A k \in 1..Len(key) : IsDigit(key[k])
    /\ key[1] = "0" => Len(key) = 1
    /\ ~digitsLess(MaxIndexKey, key)

\* the members with key := value, in the order the object enumerates them:
\* the integer-like keys first, ascending, then the other keys in the order
\* they were first set; a repeated key keeps its place
putMember(members, key, value) ==
    IF \E k \in 1..Len(members) : members[k].k = key
    THEN [k \in 1..Len(members) |->
            IF members[k].k = key THEN [k |-> key, v |-> value] ELSE members[k]]
    ELSE IF IsIndexKey(key)
    THEN LET before == Cardinality({k \in 1..Len(members) :
                            /\ IsIndexKey(members[k].k)
                            /\ digitsLess(members[k].k, key)})
         IN  SubSeq(members, 1, before) \o <<[k |-> key, v |-> value]>>
                \o SubSeq(members, before + 1, Len(members))
    ELSE Append(members, [k |-> key, v |-> value])

RECURSIVE parseValue(_, _)
RECURSIVE parseMembers(_, _, _)
RECURSIVE parseElements(_, _, _)

\* the members of an object from index j, the start of a member
parseMembers(s, j, acc) ==
    IF j > Len(s) \/ s[j] # "\"" THEN PFail
    ELSE LET key == scanString(s, j + 1, <<>>)
         IN  IF ~key.ok THEN PFail
             ELSE LET c == skipJsonSpace(s, key.next)
                  IN  IF c > Len(s) \/ s[c] # ":" THEN PFail
                      ELSE LET val == parseValue(s, skipJsonSpace(s, c + 1))
                           IN  IF ~val.ok THEN PFail
                               ELSE LET members == putMember(acc, key.value.v, val.value)
                                        d == skipJsonSpace(s, val.next)
                                    IN  IF d > Len(s) THEN PFail
                                        ELSE IF s[d] = "}" THEN POk(d + 1, JObject(members))
                                        ELSE IF s[d] = ","
                                        THEN parseMembers(s, skipJsonSpace(s, d + 1), members)
                                        ELSE PFail

\* the elements of an array from index j, the start of an element
parseElements(s, j, acc) ==
    LET val == parseValue(s, j)
    IN  IF ~val.ok THEN PFail
        ELSE LET elements == Append(acc, val.value)
                 d == skipJsonSpace(s, val.next)
             IN  IF d > Len(s) THEN PFail
                 ELSE IF s[d] = "]" THEN POk(d + 1, JArray(elements))
                 ELSE IF s[d] = ","
                 THEN parseElements(s, skipJsonSpace(s, d + 1), elements)
                 ELSE PFail

\* the value that starts at index i
parseValue(s, i) ==
    IF i > Len(s) THEN PFail
    ELSE IF s[i] = "{"
    THEN LET j == skipJsonSpace(s, i + 1)
         IN  IF j <= Len(s) /\ s[j] = "}" THEN POk(j + 1, JObject(<<>>))
             ELSE parseMembers(s, j, <<>>)
    ELSE IF s[i] = "["
    THEN LET j == skipJsonSpace(s, i + 1)
         IN  IF j <= Len(s) /\ s[j] = "]" THEN POk(j + 1, JArray(<<>>))
             ELSE parseElements(s, j, <<>>)
    ELSE IF s[i] = "\"" THEN scanString(s, i + 1, <<>>)
    ELSE IF s[i] = "-" \/ IsDigit(s[i]) THEN parseNumber(s, i)
    ELSE IF startsWithAt(s, i, <<"t","r","u","e">>) THEN POk(i + 4, [t |-> "true"])
    ELSE IF startsWithAt(s, i, <<"f","a","l","s","e">>) THEN POk(i + 5, [t |-> "false"])
    ELSE IF startsWithAt(s, i, <<"n","u","l","l">>) THEN POk(i + 4, JNull)
    ELSE PFail

Returned(value) == [threw |-> FALSE, value |-> value]
Thrown == [threw |-> TRUE, value |-> JNull]

\* the one element of a singleton set: binds a value that was computed once
only(S) == CHOOSE x \in S : TRUE

\* JSON.parse(s): the value, or a SyntaxError
JSONparse(s) ==
    only({IF val.ok /\ skipJsonSpace(s, val.next) > Len(s)
          THEN Returned(val.value) ELSE Thrown :
            val \in {parseValue(s, skipJsonSpace(s, 1))}})

----------------------------------------------------------------------------
(* repairJSON (server.js:737-758) *)

\* s.replace(/<marker>\n?/g, ''), from index i
RECURSIVE removeFence(_, _, _)
removeFence(s, i, fence) ==
    IF i > Len(s) THEN <<>>
    ELSE IF startsWithAt(s, i, fence)
    THEN LET j == i + Len(fence)
         IN  removeFence(s, IF j <= Len(s) /\ s[j] = "\n" THEN j + 1 ELSE j, fence)
    ELSE <<s[i]>> \o removeFence(s, i + 1, fence)

\* String.prototype.trim
RECURSIVE trim(_)
trim(s) ==
    IF s = <<>> THEN s
    ELSE IF IsSpace(s[1]) THEN trim(Tail(s))
    ELSE IF IsSpace(s[Len(s)]) THEN trim(SubSeq(s, 1, Len(s) - 1))
    ELSE s

\* s.replace(/,(\s*[}\]])/g, '$1'), from index i
RECURSIVE removeTrailingCommas(_, _)
removeTrailingCommas(s, i) ==
    IF i > Len(s) THEN <<>>
    ELSE LET j == skipSpace(s, i + 1)
         IN  IF s[i] = "," /\ j <= Len(s) /\ s[j] \in {"}", "]"}
             THEN SubSeq(s, i + 1, j) \o removeTrailingCommas(s, j + 1)
             ELSE <<s[i]>> \o removeTrailingCommas(s, i + 1)

\* s.replace(/([{,]\s*)([a-zA-Z0-9_]+)\s*:/g, '$1"$2":'), from index i
RECURSIVE quoteKeys(_, _)
quoteKeys(s, i) ==
    IF i > Len(s) THEN <<>>
    ELSE LET a == skipSpace(s, i + 1)
             b == skipWord(s, a)
             c == skipSpace(s, b)
         IN  IF s[i] \in {"{", ","} /\ b > a /\ c <= Len(s) /\ s[c] = ":"
             THEN SubSeq(s, i, a - 1) \o <<"\"">> \o SubSeq(s, a, b - 1)
                  \o <<"\"", ":">> \o quoteKeys(s, c + 1)
             ELSE <<s[i]>> \o quoteKeys(s, i + 1)

\* s.replace(/}(\s*){/g, '},$1{'), from index i
RECURSIVE insertBraceCommas(_, _)
insertBraceCommas(s, i) ==
    IF i > Len(s) THEN <<>>
    ELSE LET j == skipSpace(s, i + 1)
         IN  IF s[i] = "}" /\ j <= Len(s) /\ s[j] = "{"
             THEN <<"}", ",">> \o SubSeq(s, i + 1, j) \o insertBraceCommas(s, j + 1)
             ELSE <<s[i]>> \o insertBraceCommas(s, i + 1)

\* s.match(/\{[\s\S]*\}/): from the first '{' to the last '}' after it
matchBraces(s) ==
    LET opens == {i \in 1..Len(s) : s[i] = "{"}
        first == CHOOSE i \in opens : \A k \in opens : i <= k
        closes == {i \in 1..Len(s) : s[i] = "}" /\ i > first}
        last == CHOOSE i \in closes : \A k \in closes : i >= k
    IN  IF opens = {} \/ closes = {}
        THEN [found |-> FALSE, text |-> <<>>]
        ELSE [found |-> TRUE, text |-> SubSeq(s, first, last)]


FenceJson == <<Backquote, Backquote, Backquote, "j", "s", "o", "n">>
Fence == <<Backquote, Backquote, Backquote>>

\* the text after the four replacements and the trim (server.js:743-746)
repaired(s) ==
    LET unfenced == trim(removeFence(removeFence(s, 1, FenceJson), 1, Fence))
    IN  insertBraceCommas(quoteKeys(removeTrailingCommas(unfenced, 1), 1), 1)

\* the catch block of repairJSON with the text after its replacements
\* (server.js:748-756): the value it returns, or the exception it lets out
parseRepaired(text) ==
    only({IF ~second.threw THEN second
          ELSE IF jsonMatch.found THEN JSONparse(jsonMatch.text)
          ELSE Thrown :
            second \in {JSONparse(text)}, jsonMatch \in {matchBraces(text)}})

\* variant: a repairJSON that rewrites the text before its first parse
repairJSON_repairFirst(s) == parseRepaired(repaired(s))

\* repairJSON(s): the value it returns, or the exception it lets out
repairJSON(s) ==
    only({IF ~direct.threw THEN direct ELSE parseRepaired(repaired(s)) :
            direct \in {JSONparse(s)}})

----------------------------------------------------------------------------
(* Reading a parsed value as JavaScript does *)

\* the value of a member that is absent, or read on a value with no members
JUndefined == [t |-> "undefined"]

K_frames == <<"f","r","a","m","e","s">>
K_type == <<"t","y","p","e">>

\* value[key]: the member of an object, undefined on any other value
getMember(value, key) ==
    IF value.t = "object" /\ \E k \in 1..Len(value.v) : value.v[k].k = key
    THEN value.v[CHOOSE k \in 1..Len(value.v) : value.v[k].k = key].v
    ELSE JUndefined

\* JavaScript truthiness of a parsed value
JTruthy(value) ==
    CASE value.t \in {"null", "undefined", "false"} -> FALSE
      [] value.t = "number" -> value.m # <<"0">>
      [] value.t = "string" -> value.v # <<>>
      [] OTHER -> TRUE

\* whether two parsed values are the same structure (members in the same order)
RECURSIVE sameValue(_, _)
sameValue(a, b) ==
    IF a.t # b.t THEN FALSE
    ELSE CASE a.t = "string" -> a.v = b.v
           [] a.t = "number" -> a.m = b.m /\ a.e = b.e
           [] a.t = "array" ->
                /\ Len(a.v) = Len(b.v)
                /\ \A i \in 1..Len(a.v) : sameValue(a.v[i], b.v[i])
           [] a.t = "object" ->
                /\ Len(a.v) = Len(b.v)
                /\ \A i \in 1..Len(a.v) :
                        a.v[i].k = b.v[i].k /\ sameValue(a.v[i].v, b.v[i].v)
           [] OTHER -> TRUE

\* Array.isArray
isArray(value) == value.t = "array"

\* the test `result && result.frames` on the outcome of a parse
hasFrames(result) ==
    /\ ~result.threw
    /\ JTruthy(result.value)
    /\ JTruthy(getMember(result.value, K_frames))

----------------------------------------------------------------------------
(* parseJSONResponse (part_000:65-150) *)

\* s.replace(/'/g, '"')
doubleQuotes(s) == [i \in 1..Len(s) |-> IF s[i] = "'" THEN "\"" ELSE s[i]]

\* the index after the last character of the line that holds index i
RECURSIVE lineEnd(_, _)
lineEnd(s, i) ==
    IF i <= Len(s) /\ s[i] \notin {"\n", "\r", "\\u2028", "\\u2029"}
    THEN lineEnd(s, i + 1) ELSE i

\* s.replace(/\/\/.*$/gm, ''), from index i
RECURSIVE removeLineComments(_, _)
removeLineComments(s, i) ==
    IF i > Len(s) THEN <<>>
    ELSE IF startsWithAt(s, i, <<"/", "/">>)
    THEN removeLineComments(s, lineEnd(s, i))
    ELSE <<s[i]>> \o removeLineComments(s, i + 1)

\* the index of the first "*/" at or after index i, 0 when there is none
RECURSIVE findBlockEnd(_, _)
findBlockEnd(s, i) ==
    IF i + 1 > Len(s) THEN 0
    ELSE IF s[i] = "*" /\ s[i + 1] = "/" THEN i
    ELSE findBlockEnd(s, i + 1)

\* s.replace(/\/\*[\s\S]*?\*\//g, ''), from index i
RECURSIVE removeBlockComments(_, _)
removeBlockComments(s, i) ==
    IF i > Len(s) THEN <<>>
    ELSE IF startsWithAt(s, i, <<"/", "*">>) /\ findBlockEnd(s, i + 2) # 0
    THEN removeBlockComments(s, findBlockEnd(s, i + 2) + 2)
    ELSE <<s[i]>> \o removeBlockComments(s, i + 1)

\* [a-zA-Z_]
IsIdentStart(c) ==
    \/ \E k \in 1..26 : LowerChars[k] = c \/ UpperChars[k] = c
    \/ c = "_"

\* s.replace(/([{,]\s*)([a-zA-Z_][a-zA-Z0-9_]*)\s*:/g, '$1"$2":'), from index i
RECURSIVE quoteIdentKeys(_, _)
quoteIdentKeys(s, i) ==
    IF i > Len(s) THEN <<>>
    ELSE LET a == skipSpace(s, i + 1)
             b == IF a <= Len(s) /\ IsIdentStart(s[a]) THEN skipWord(s, a) ELSE a
             c == skipSpace(s, b)
         IN  IF s[i] \in {"{", ","} /\ b > a /\ c <= Len(s) /\ s[c] = ":"
             THEN SubSeq(s, i, a - 1) \o <<"\"">> \o SubSeq(s, a, b - 1)
                  \o <<"\"", ":">> \o quoteIdentKeys(s, c + 1)
             ELSE <<s[i]>> \o quoteIdentKeys(s, i + 1)

\* whether /"frames"\s*:\s*\[/ matches at index i
framesOpensAt(s, i) ==
    LET a == skipSpace(s, i + 8)
        b == skipSpace(s, a + 1)
    IN  /\ startsWithAt(s, i, <<"\"">> \o K_frames \o <<"\"">>)
        /\ a <= Len(s) /\ s[a] = ":"
        /\ b <= Len(s) /\ s[b] = "["
        /\ \E k \in (b + 1)..Len(s) : s[k] = "]"

\* s.match(/"frames"\s*:\s*\[[\s\S]*\]/): from the first place the pattern
\* matches to the last ']'
matchFrames(s) ==
    LET starts == {i \in 1..Len(s) : framesOpensAt(s, i)}
        first == CHOOSE i \in starts : \A k \in starts : i <= k
        closes == {i \in 1..Len(s) : s[i] = "]"}
        last == CHOOSE i \in closes : \A k \in closes : i >= k
    IN  IF starts = {}
        THEN [found |-> FALSE, text |-> <<>>]
        ELSE [found |-> TRUE, text |-> SubSeq(s, first, last)]

\* the three replacements of steps 4 and 5 (part_000:99-102, 118-121)
commonFixes(s) == quoteIdentKeys(removeTrailingCommas(doubleQuotes(s), 1), 1)

\* `return null`
ReturnedNull == [threw |-> FALSE, value |-> JNull]

\* one attempt `try { result = JSON.parse(s); if (result && result.frames)
\* return result; } catch (e) {}`: the value returned, or Thrown when the
\* function goes on to its next attempt
attempt(s) ==
    only({IF hasFrames(result) THEN result ELSE Thrown : result \in {JSONparse(s)}})

\* the last attempt, which also asks Array.isArray(result.frames)
\* (part_000:135-139)
attemptFramesArray(s) ==
    only({IF hasFrames(result) /\ isArray(getMember(result.value, K_frames))
          THEN result ELSE Thrown : result \in {JSONparse(s)}})

\* what the first attempt that returns, from the i-th on, returns; `return
\* null` when none does
RECURSIVE firstReturn(_, _)
firstReturn(attempts, i) ==
    IF i > Len(attempts) THEN ReturnedNull
    ELSE IF ~attempts[i].threw THEN attempts[i]
    ELSE firstReturn(attempts, i + 1)

\* parseJSONResponse(text): the value it returns, null when every attempt failed
parseJSONResponse(text) ==
    LET unfenced == trim(removeFence(removeFence(text, 1, FenceJson), 1, Fence))
        stripped == removeBlockComments(removeLineComments(unfenced, 1), 1)
        cleaned == commonFixes(stripped)
        jsonMatch == matchBraces(cleaned)
        framesMatch == matchFrames(cleaned)
    IN  firstReturn(
            << attempt(text),
               attempt(stripped),
               attempt(cleaned),
               IF jsonMatch.found
               THEN attempt(commonFixes(jsonMatch.text)) ELSE Thrown,
               IF framesMatch.found
               THEN attemptFramesArray(<<"{">> \o framesMatch.text \o <<"}">>)
               ELSE Thrown >>, 1)

----------------------------------------------------------------------------
(* Design documents: the value of `designJson` in the generate-next-page     *)
(* handler.  A document has a `frames` list; a frame has a backgroundColor   *)
(* (Undefined when absent) and `children`, which is absent, a list, or a     *)
(* truthy value that is not a list.  Element texts are character sequences,  *)
(* <<>> when the member is absent (absent and "" are both falsy in the       *)
(* `||` chains that read them).  Names and coordinates are left out: the     *)
(* session manager only copies them.                                         *)

Child(type, text, placeholder, backgroundColor, children) ==
    [type |-> type, text |-> text, placeholder |-> placeholder,
     backgroundColor |-> backgroundColor, children |-> children]

Frame(backgroundColor, childrenKind, children) ==
    [backgroundColor |-> backgroundColor, childrenKind |-> childrenKind,
     children |-> children]

T_SignIn == <<"S","i","g","n"," ","I","n">>
T_LearnMore == <<"L","e","a","r","n"," ","M","o","r","e">>
T_Email == <<"E","m","a","i","l">>
T_Password == <<"P","a","s","s","w","o","r","d">>
T_Welcome == <<"W","e","l","c","o","m","e">>

\* first frame: background #FFF7ED, a button, a text and an input as direct children
DocWarm ==
    [frames |-> <<
        Frame("#FFF7ED", "list", <<
            Child("button", T_SignIn, <<>>, "#EA580C", <<>>),
            Child("text", T_Welcome, <<>>, Undefined, <<>>),
            Child("input", <<>>, T_Email, "#F9FAFB", <<>>) >>) >>]

\* first frame: background #000000, a nested frame holding a button, then a
\* button; a second frame with a button of its own
DocDark ==
    [frames |-> <<
        Frame("#000000", "list", <<
            Child("frame", <<>>, <<>>, "#111827", <<
                Child("button", T_SignIn, <<>>, "#DC2626", <<>>) >>),
            Child("button", T_LearnMore, <<>>, "#2563EB", <<>>) >>),
        Frame("#FFFFFF", "list", <<
            Child("button", T_SignIn, <<>>, "#16A34A", <<>>) >>) >>]

\* first frame whose `children` member is a truthy value that is not a list
DocBadChildren ==
    [frames |-> << Frame("#FFFBEB", "notlist", <<>>) >>]

----------------------------------------------------------------------------
(* Fallback designs (server.js:764-895) *)

\* createFallbackDesign(prompt): the frame holds four nested frames, the only
\* button being inside the second one
createFallbackDesign(prompt) ==
    LET promptLower == toLowerCase(prompt)
        has(w) == includes(promptLower, w)
        scheme ==
            IF has(<<"f","a","r","m">>)
               \/ has(<<"a","g","r","i","c","u","l","t","u","r","e">>)
            THEN [primaryColor |-> "#4CAF50", bgColor |-> "#F1F8E9"]
            ELSE IF has(<<"g","y","m">>) \/ has(<<"f","i","t","n","e","s","s">>)
            THEN [primaryColor |-> "#DC2626", bgColor |-> "#111827"]
            ELSE IF has(<<"s","c","h","o","o","l">>)
                    \/ has(<<"e","d","u","c","a","t","i","o","n">>)
            THEN [primaryColor |-> "#2563EB", bgColor |-> "#F8FAFC"]
            ELSE IF has(<<"r","e","s","t","a","u","r","a","n","t">>)
                    \/ has(<<"f","o","o","d">>)
            THEN [primaryColor |-> "#B45309", bgColor |-> "#FFFBEB"]
            ELSE [primaryColor |-> "#007AFF", bgColor |-> "#FFFFFF"]
    IN  [frames |-> <<
            Frame(scheme.bgColor, "list", <<
                Child("frame", <<>>, <<>>, scheme.primaryColor, <<>>),
                Child("frame", <<>>, <<>>, scheme.bgColor, <<
                    Child("button", T_LearnMore, <<>>, scheme.primaryColor, <<>>) >>),
                Child("frame", <<>>, <<>>, "#F9FAFB", <<>>),
                Child("frame", <<>>, <<>>, "#1F2937", <<>>) >>) >>]

\* the characters of a page type, for the prompt `${pageType} page for ${name}`
pageTypeChars(pageType) ==
    CASE pageType = "login" -> <<"l","o","g","i","n">>
      [] pageType = "home" -> <<"h","o","m","e">>
      [] pageType = "detail" -> <<"d","e","t","a","i","l">>
      [] pageType = "contact" -> <<"c","o","n","t","a","c","t">>
      [] pageType = "about" -> <<"a","b","o","u","t">>
      [] pageType = "features" -> <<"f","e","a","t","u","r","e","s">>

createFallbackDesignForPage(pageType, project) ==
    LET primaryColor ==
            IF Truthy(project.designSystem.colors.primary)
            THEN project.designSystem.colors.primary ELSE "#007AFF"
    IN  IF pageType = PAGE_TYPES.LOGIN
        THEN [frames |-> <<
                Frame("#F3F4F6", "list", <<
                    Child("frame", <<>>, <<>>, "#FFFFFF", <<
                        Child("input", <<>>, T_Email, "#F9FAFB", <<>>),
                        Child("input", <<>>, T_Password, "#F9FAFB", <<>>),
                        Child("button", T_SignIn, <<>>, primaryColor, <<>>) >>) >>) >>]
        ELSE createFallbackDesign(
                pageTypeChars(pageType) \o <<" ","p","a","g","e"," ","f","o","r"," ">>
                \o project.name)

----------------------------------------------------------------------------
(* Project management functions (server.js:238-365) *)

\* variant: the rules read from the last to the first
inferActionFromText_lastRuleWins(text) ==
    LET lowerText == toLowerCase(text)
        has(w) == includes(lowerText, w)
    IN  IF has(<<"a","b","o","u","t">>)
        THEN "about"
        ELSE IF has(<<"f","e","a","t","u","r","e">>)
        THEN "features"
        ELSE IF has(<<"s","t","a","r","t">>) \/ has(<<"b","e","g","i","n">>)
        THEN "get_started"
        ELSE IF has(<<"l","e","a","r","n">>) \/ has(<<"m","o","r","e">>)
        THEN "detail"
        ELSE IF has(<<"c","o","n","t","a","c","t">>) \/ has(<<"r","e","a","c","h">>)
        THEN "contact"
        ELSE IF has(<<"s","i","g","n"," ","u","p">>)
                \/ has(<<"r","e","g","i","s","t","e","r">>)
        THEN "register"
        ELSE IF has(<<"l","o","g","i","n">>) \/ has(<<"s","i","g","n"," ","i","n">>)
        THEN "login"
        ELSE "detail"

\* inferActionFromText (server.js:343)
inferActionFromText(text) ==
    LET lowerText == toLowerCase(text)
        has(w) == includes(lowerText, w)
    IN  IF has(<<"l","o","g","i","n">>) \/ has(<<"s","i","g","n"," ","i","n">>)
        THEN "login"
        ELSE IF has(<<"s","i","g","n"," ","u","p">>)
                \/ has(<<"r","e","g","i","s","t","e","r">>)
        THEN "register"
        ELSE IF has(<<"c","o","n","t","a","c","t">>) \/ has(<<"r","e","a","c","h">>)
        THEN "contact"
        ELSE IF has(<<"l","e","a","r","n">>) \/ has(<<"m","o","r","e">>)
        THEN "detail"
        ELSE IF has(<<"s","t","a","r","t">>) \/ has(<<"b","e","g","i","n">>)
        THEN "get_started"
        ELSE IF has(<<"f","e","a","t","u","r","e">>)
        THEN "features"
        ELSE IF has(<<"a","b","o","u","t">>)
        THEN "about"
        ELSE "detail"

\* child.text || child.placeholder || fallback
textOrPlaceholder(child, fallback) ==
    IF child.text # <<>> THEN child.text
    ELSE IF child.placeholder # <<>> THEN child.placeholder
    ELSE fallback

\* the forEach of extractInteractiveElements over children[from..]
RECURSIVE elementsFrom(_, _)
elementsFrom(children, from) ==
    IF from > Len(children) THEN <<>>
    ELSE LET child == children[from]
         IN  (IF child.type = "button" \/ child.type = "input"
              THEN << [index |-> from - 1,
                       type |-> child.type,
                       text |-> textOrPlaceholder(child, <<"U","n","n","a","m","e","d">>),
                       action |-> inferActionFromText(textOrPlaceholder(child, <<>>))] >>
              ELSE <<>>)
             \o elementsFrom(children, from + 1)

\* variant: an extraction that reads the children of every frame of the page
RECURSIVE elementsOfFrames(_, _)
elementsOfFrames(frames, from) ==
    IF from > Len(frames) THEN <<>>
    ELSE (IF frames[from].childrenKind = "list"
          THEN elementsFrom(frames[from].children, 1) ELSE <<>>)
         \o elementsOfFrames(frames, from + 1)

extractInteractiveElements_everyFrame(pageJson) ==
    [threw |-> FALSE, elements |-> elementsOfFrames(pageJson.frames, 1)]

\* extractInteractiveElements (server.js:319): the elements, or a TypeError
\* when frame.children is truthy and has no forEach
extractInteractiveElements(pageJson) ==
    IF Len(pageJson.frames) = 0
    THEN [threw |-> FALSE, elements |-> <<>>]
    ELSE LET frame == pageJson.frames[1]
         IN  IF frame.childrenKind = "absent"
             THEN [threw |-> FALSE, elements |-> <<>>]
             ELSE IF frame.childrenKind = "notlist"
             THEN [threw |-> TRUE, elements |-> <<>>]
             ELSE [threw |-> FALSE, elements |-> elementsFrom(frame.children, 1)]

\* frame.children.find(c => c.type === 'button'), as an index (0 when none)
findButton(children) ==
    IF \E i \in 1..Len(children) : children[i].type = "button"
    THEN CHOOSE i \in 1..Len(children) :
            children[i].type = "button"
            /\ \A j \in 1..(i - 1) : children[j].type # "button"
    ELSE 0

\* updateDesignSystem (server.js:303): the project's designSystem.colors
\* afterwards, and whether frame.children.find threw a TypeError (children
\* is truthy and has no find), which it does after the background is set
updateDesignSystem(project, pageJson) ==
    LET colors == project.designSystem.colors
    IN  IF Len(pageJson.frames) = 0 THEN [threw |-> FALSE, colors |-> colors]
        ELSE LET frame == pageJson.frames[1]
                 background ==
                    IF Truthy(frame.backgroundColor)
                    THEN frame.backgroundColor ELSE colors.background
                 b == IF frame.childrenKind = "list" THEN findButton(frame.children) ELSE 0
                 primary ==
                    IF b > 0 /\ Truthy(frame.children[b].backgroundColor)
                    THEN frame.children[b].backgroundColor ELSE colors.primary
             IN  [threw |-> frame.childrenKind = "notlist",
                  colors |-> [background |-> background, primary |-> primary]]

\* variant: the next page type read from the end of the pending queue
getNextPageType_lastPending(project) ==
    IF Len(project.pendingPages) > 0
    THEN project.pendingPages[Len(project.pendingPages)]
    ELSE IF Len(project.interactiveElements) > Len(project.pages) - 2
    THEN PAGE_TYPES.DETAIL
    ELSE Undefined

\* getNextPageType (server.js:355); Undefined stands for null
getNextPageType(project) ==
    IF Len(project.pendingPages) > 0
    THEN project.pendingPages[1]
    ELSE IF Len(project.interactiveElements) > Len(project.pages) - 2
    THEN PAGE_TYPES.DETAIL
    ELSE Undefined

\* variant: pages for the keywords only, without the two 'detail' pages that
\* are always added
analyzeDescriptionForPages_noPadding(description) ==
    LET lowerDesc == toLowerCase(description)
        has(w) == includes(lowerDesc, w)
    IN  <<PAGE_TYPES.LOGIN, PAGE_TYPES.HOME>>
        \o (IF has(<<"f","e","a","t","u","r","e">>) \/ has(<<"s","e","r","v","i","c","e">>)
            THEN <<PAGE_TYPES.FEATURES>> ELSE <<>>)
        \o (IF has(<<"a","b","o","u","t">>) \/ has(<<"c","o","m","p","a","n","y">>)
               \/ has(<<"t","e","a","m">>)
            THEN <<PAGE_TYPES.ABOUT>> ELSE <<>>)
        \o (IF has(<<"c","o","n","t","a","c","t">>) \/ has(<<"r","e","a","c","h">>)
               \/ has(<<"s","u","p","p","o","r","t">>)
            THEN <<PAGE_TYPES.CONTACT>> ELSE <<>>)
        \o (IF has(<<"p","r","o","d","u","c","t">>) \/ has(<<"s","h","o","p">>)
               \/ has(<<"s","t","o","r","e">>)
            THEN <<PAGE_TYPES.DETAIL>> ELSE <<>>)

\* analyzeDescriptionForPages (server.js:367)
analyzeDescriptionForPages(description) ==
    LET lowerDesc == toLowerCase(description)
        has(w) == includes(lowerDesc, w)
    IN  <<PAGE_TYPES.LOGIN, PAGE_TYPES.HOME>>
        \o (IF has(<<"f","e","a","t","u","r","e">>) \/ has(<<"s","e","r","v","i","c","e">>)
            THEN <<PAGE_TYPES.FEATURES>> ELSE <<>>)
        \o (IF has(<<"a","b","o","u","t">>) \/ has(<<"c","o","m","p","a","n","y">>)
               \/ has(<<"t","e","a","m">>)
            THEN <<PAGE_TYPES.ABOUT>> ELSE <<>>)
        \o (IF has(<<"c","o","n","t","a","c","t">>) \/ has(<<"r","e","a","c","h">>)
               \/ has(<<"s","u","p","p","o","r","t">>)
            THEN <<PAGE_TYPES.CONTACT>> ELSE <<>>)
        \o <<PAGE_TYPES.DETAIL, PAGE_TYPES.DETAIL>>
        \o (IF has(<<"p","r","o","d","u","c","t">>) \/ has(<<"s","h","o","p">>)
               \/ has(<<"s","t","o","r","e">>)
            THEN <<PAGE_TYPES.DETAIL>> ELSE <<>>)

\* the project object built by createProject (server.js:240-255); timestamps,
\* description, typography, spacing and context are never read back by the
\* session manager and are left out
newProject(projectId, projectName, requestedPages) ==
    [id |-> projectId,
     name |-> projectName,
     status |-> "active",
     pages |-> <<>>,
     pendingPages |-> requestedPages,
     completedPages |-> <<>>,
     currentPageIndex |-> 0,
     totalPages |-> Len(requestedPages),
     designSystem |-> [colors |-> [background |-> Undefined, primary |-> Undefined]],
     interactiveElements |-> <<>>]

\* createProject (server.js:238): registers the object and schedules its
\* one-shot cleanup timer
createProject(projectName, description, requestedPages) ==
    /\ heap' = Append(heap, newProject(nextId, projectName, requestedPages))
    /\ projects' = projects \cup {nextId}
    /\ timers' = timers \cup {nextId}
    /\ nextId' = nextId + 1

\* variant: a lookup that still finds every session ever created
getProject_known(projectId) == projectId < nextId

\* getProject (server.js:269): whether projects.get(projectId) is defined
getProject(projectId) == projectId \in projects

\* variant: an update that is assigned to every object of the registry
updateProject_everySession(projectId, updates) ==
    IF projectId \in projects
    THEN /\ heap' = [i \in DOMAIN heap |-> [heap[i] EXCEPT !.status = updates.status]]
         /\ projects' = projects \cup {projectId}
    ELSE UNCHANGED <<heap, projects>>

\* updateProject (server.js:273); `updates` is {status: ...} at its only call
updateProject(projectId, updates) ==
    IF projectId \in projects
    THEN /\ heap' = [heap EXCEPT ![projectId].status = updates.status]
         /\ projects' = projects \cup {projectId}
    ELSE UNCHANGED <<heap, projects>>

\* variant: the produced-page counter advances only once the page's
\* interactive elements have been extracted
addPage_countsLast(project, pageData) ==
    LET pendingIndex == indexOf(project.pendingPages, pageData.type)
        pushed ==
            [project EXCEPT
                !.pages = Append(@, pageData),
                !.completedPages = Append(@, pageData.type),
                !.pendingPages =
                    IF pendingIndex > -1 THEN splice1(@, pendingIndex) ELSE @]
        extracted == extractInteractiveElements(pageData.json)
        updated == updateDesignSystem(pushed, pageData.json)
    IN  IF extracted.threw
        THEN [threw |-> TRUE, project |-> pushed]
        ELSE [threw |-> updated.threw,
              project |->
                [pushed EXCEPT
                    !.currentPageIndex = @ + 1,
                    !.interactiveElements = @ \o extracted.elements,
                    !.designSystem.colors = updated.colors]]

\* variant: the newest page is put first in the list of pages
addPage_newestFirst(project, pageData) ==
    LET pendingIndex == indexOf(project.pendingPages, pageData.type)
        pushed ==
            [project EXCEPT
                !.pages = <<pageData>> \o @,
                !.completedPages = Append(@, pageData.type),
                !.currentPageIndex = @ + 1,
                !.pendingPages =
                    IF pendingIndex > -1 THEN splice1(@, pendingIndex) ELSE @]
        extracted == extractInteractiveElements(pageData.json)
        updated == updateDesignSystem(pushed, pageData.json)
    IN  IF extracted.threw
        THEN [threw |-> TRUE, project |-> pushed]
        ELSE [threw |-> updated.threw,
              project |->
                [pushed EXCEPT
                    !.interactiveElements = @ \o extracted.elements,
                    !.designSystem.colors = updated.colors]]

\* the body of addPageToProject on the object it found (server.js:286-297):
\* the object afterwards, and whether extractInteractiveElements or
\* updateDesignSystem threw
addPage(project, pageData) ==
    LET pendingIndex == indexOf(project.pendingPages, pageData.type)
        pushed ==
            [project EXCEPT
                !.pages = Append(@, pageData),
                !.completedPages = Append(@, pageData.type),
                !.currentPageIndex = @ + 1,
                !.pendingPages =
                    IF pendingIndex > -1 THEN splice1(@, pendingIndex) ELSE @]
        extracted == extractInteractiveElements(pageData.json)
        updated == updateDesignSystem(pushed, pageData.json)
    IN  IF extracted.threw
        THEN [threw |-> TRUE, project |-> pushed]
        ELSE [threw |-> updated.threw,
              project |->
                [pushed EXCEPT
                    !.interactiveElements = @ \o extracted.elements,
                    !.designSystem.colors = updated.colors]]

\* variant: addPageToProject without its guard records on the object it is
\* given and sets it back into the registry
addPageToProject_noGuard(projectId, pageData) ==
    /\ heap' = [heap EXCEPT ![projectId] = addPage(@, pageData).project]
    /\ projects' =
            IF addPage(heap[projectId], pageData).threw
            THEN projects ELSE projects \cup {projectId}

\* addPageToProject (server.js:282)
addPageToProject(projectId, pageData) ==
    IF projectId \in projects
    THEN /\ heap' = [heap EXCEPT ![projectId] = addPage(@, pageData).project]
         /\ projects' =
                IF addPage(heap[projectId], pageData).threw
                THEN projects ELSE projects \cup {projectId}
    ELSE UNCHANGED <<heap, projects>>

----------------------------------------------------------------------------
(* HTTP handlers (server.js:1110-1423) *)

\* a response: the route that answered, the HTTP code, and the projectId,
\* status and error members of the body (0 or "" when the body has none)
Response(op, projectId, code, status, error) ==
    [op |-> op, projectId |-> projectId, code |-> code, status |-> status,
     error |-> error]

\* no response was sent by the last step
NoResponse == Response("none", 0, 0, "", "")

\* res.status(404).json({success: false, error: 'Project not found or expired'});
\* the body names neither the route nor the id
NotFound == Response("", 0, 404, "", "Project not found or expired")

N_Shop == <<"S","h","o","p">>
D_Store == <<"a","n"," ","o","n","l","i","n","e"," ","s","t","o","r","e">>

\* bodies of POST /api/generate-project; pages = <<>> stands for a missing,
\* non-array or empty `pages`, and <<>> for a missing or empty projectName
\* or description
ProjectRequests ==
    { [projectName |-> N_Shop, description |-> D_Store, pages |-> <<>>],
      [projectName |-> N_Shop, description |-> D_Store, pages |-> <<"home">>],
      [projectName |-> N_Shop, description |-> D_Store,
       pages |-> <<"detail", "home", "detail">>],
      [projectName |-> <<>>, description |-> <<>>, pages |-> <<>>],
      [projectName |-> N_Shop, description |-> <<>>, pages |-> <<>>] }

\* res.status(400).json({success: false, error: ...}) and
\* res.status(500).json({success: false, error: ...}) of a handler that
\* refuses a request before it reads or changes a session; the body names
\* no route
Refused(code, error) == Response("", 0, code, "", error)

\* the design a handler holds: kind "json" (value: what repairJSON returned),
\* "wrapped" (value: {frames: [what repairJSON returned]}) or "fallback"
\* (value: the fallback document)
Design(kind, value) == [kind |-> kind, value |-> value]

\* the `frames` member of a design
framesOf(design) ==
    IF design.kind = "fallback"
    THEN JArray(design.value.frames)
    ELSE getMember(design.value, K_frames)

\* designJson of POST /api/generate-design once repairJSON has ended with
\* `result` (server.js:1033-1070)
designFrom(prompt, result) ==
    LET fallback == Design("fallback", createFallbackDesign(prompt))
        afterTry ==
            IF hasFrames(result) THEN Design("json", result.value) ELSE fallback
    IN  IF JTruthy(framesOf(afterTry)) THEN afterTry
        ELSE IF sameValue(getMember(afterTry.value, K_type),
                          JString(<<"f","r","a","m","e">>))
        THEN Design("wrapped",
                    JObject(<<[k |-> K_frames, v |-> JArray(<<afterTry.value>>)]>>))
        ELSE fallback

\* designJson of POST /api/generate-design for the generator's text
\* (server.js:1031-1070)
generateDesign(prompt, text) ==
    only({designFrom(prompt, result) : result \in {repairJSON(text)}})

\* designJson of POST /api/generate-next-page once repairJSON has ended with
\* `result` (server.js:1258-1288)
pageDesignFrom(nextPageType, project, result) ==
    IF hasFrames(result) THEN Design("json", result.value)
    ELSE Design("fallback", createFallbackDesignForPage(nextPageType, project))

\* designJson of POST /api/generate-next-page for the generator's text
\* (server.js:1256-1288)
nextPageDesign(nextPageType, project, text) ==
    only({pageDesignFrom(nextPageType, project, result) :
            result \in {repairJSON(text)}})

\* what the awaited generation and repairJSON leave in the handler: a document
\* with a truthy `frames`, or nothing usable (the call or the parse threw, or
\* the value had no frames), which the handler replaces by the fallback
GenOutcomes == {"warm", "dark", "badchildren", "unusable"}

generated(outcome) ==
    CASE outcome = "warm" -> DocWarm
      [] outcome = "dark" -> DocDark
      [] outcome = "badchildren" -> DocBadChildren

RECURSIVE sumPages(_)
sumPages(n) == IF n = 0 THEN 0 ELSE Len(heap[n].pages) + sumPages(n - 1)

\* the sessions created and the pages recorded or being generated so far
Served == Len(heap) + sumPages(Len(heap)) + BagCardinality(inflight)

\* the ids a request may name: those created so far and one never created
RequestIds == 1..nextId

\* variant: a handler that derives the sequence whatever the request lists
GenerateProject_alwaysDerived(body) ==
    /\ IF body.projectName = <<>> \/ body.description = <<>>
       THEN /\ res' = Refused(400,
                              "projectName and description are required")
            /\ UNCHANGED <<projects, heap, timers, nextId>>
       ELSE /\ Served < MaxRequests
            /\ createProject(body.projectName, body.description,
                             analyzeDescriptionForPages(body.description))
            /\ res' = Response("generate-project", nextId, 200, "initialized", "")
    /\ UNCHANGED <<inflight, repairVars, apiKey>>

\* POST /api/generate-project (server.js:1110)
GenerateProject(body) ==
    /\ IF body.projectName = <<>> \/ body.description = <<>>
       THEN /\ res' = Refused(400,
                              "projectName and description are required")
            /\ UNCHANGED <<projects, heap, timers, nextId>>
       ELSE /\ Served < MaxRequests
            /\ LET pageSequence ==
                    IF Len(body.pages) > 0 THEN body.pages
                    ELSE analyzeDescriptionForPages(body.description)
               IN  createProject(body.projectName, body.description, pageSequence)
            /\ res' = Response("generate-project", nextId, 200, "initialized", "")
    /\ UNCHANGED <<inflight, repairVars, apiKey>>

\* POST /api/generate-next-page with a missing or empty projectId
\* (server.js:1168-1173)
NextPageNoProjectId ==
    /\ res' = Refused(400, "projectId is required")
    /\ UNCHANGED <<projects, heap, timers, nextId, inflight, repairVars, apiKey>>

\* POST /api/generate-next-page, unknown id (server.js:1175-1181)
NextPageNotFound(projectId) ==
    /\ ~getProject(projectId)
    /\ res' = NotFound
    /\ UNCHANGED <<projects, heap, timers, nextId, inflight, repairVars, apiKey>>

\* POST /api/generate-next-page, no page left (server.js:1183-1205)
NextPageComplete(projectId) ==
    /\ getProject(projectId)
    /\ getNextPageType(heap[projectId]) = Undefined
    /\ updateProject(projectId, [status |-> "completed"])
    /\ res' = Response("generate-next-page", projectId, 200, "completed", "")
    /\ UNCHANGED <<timers, nextId, inflight, repairVars, apiKey>>

\* POST /api/generate-next-page up to its await (server.js:1161-1245): the
\* request keeps its reference to the project object and the page type it
\* read; without GEMINI_API_KEY it is answered 500 before any generation
\* (server.js:1208-1213)
NextPageStart(projectId) ==
    /\ getProject(projectId)
    /\ getNextPageType(heap[projectId]) # Undefined
    /\ IF ~apiKey
       THEN /\ res' = Refused(500,
                              "GEMINI_API_KEY not configured")
            /\ UNCHANGED inflight
       ELSE /\ BagCardinality(inflight) < MaxInflight
            /\ Served < MaxRequests
            /\ inflight' = inflight (+) SetToBag({
                    [projectId |-> projectId,
                     nextPageType |-> getNextPageType(heap[projectId])] })
            /\ res' = NoResponse
    /\ UNCHANGED <<projects, heap, timers, nextId, repairVars, apiKey>>

\* POST /api/generate-next-page from its await on (server.js:1246-1344)
NextPageResume(req, outcome) ==
    /\ BagIn(req, inflight)
    /\ inflight' = inflight (-) SetToBag({req})
    /\ LET project == heap[req.projectId]
           designJson ==
                IF outcome = "unusable"
                THEN createFallbackDesignForPage(req.nextPageType, project)
                ELSE generated(outcome)
           pageData ==
                [id |-> <<req.projectId, project.currentPageIndex>>,
                 type |-> req.nextPageType,
                 index |-> project.currentPageIndex,
                 json |-> designJson]
       IN  /\ addPageToProject(req.projectId, pageData)
           /\ res' =
                IF req.projectId \in projects /\ addPage(project, pageData).threw
                THEN Response("generate-next-page", 0, 500, "", "TypeError")
                ELSE Response("generate-next-page", req.projectId, 200, "in_progress", "")
    /\ UNCHANGED <<timers, nextId, repairVars, apiKey>>

\* variant: a status read that marks the session it finds as completed
ProjectStatus_marksCompleted(projectId) ==
    /\ res' = IF getProject(projectId)
              THEN Response("status", projectId, 200, heap[projectId].status, "")
              ELSE NotFound
    /\ heap' = IF getProject(projectId)
               THEN [heap EXCEPT ![projectId].status = "completed"]
               ELSE heap
    /\ UNCHANGED <<projects, timers, nextId, inflight, repairVars, apiKey>>

\* GET /api/project/:projectId/status (server.js:1348)
ProjectStatus(projectId) ==
    /\ res' = IF getProject(projectId)
              THEN Response("status", projectId, 200, heap[projectId].status, "")
              ELSE NotFound
    /\ UNCHANGED <<projects, heap, timers, nextId, inflight, repairVars, apiKey>>

\* GET /api/project/:projectId/pages (server.js:1385)
ProjectPages(projectId) ==
    /\ res' = IF getProject(projectId)
              THEN Response("pages", projectId, 200, "", "")
              ELSE NotFound
    /\ UNCHANGED <<projects, heap, timers, nextId, inflight, repairVars, apiKey>>

\* variant: a timer that spares the sessions that are completed
Expire_activeOnly(projectId) ==
    /\ projectId \in timers
    /\ timers' = timers \ {projectId}
    /\ projects' = IF heap[projectId].status = "completed"
                   THEN projects ELSE projects \ {projectId}
    /\ res' = NoResponse
    /\ UNCHANGED <<heap, nextId, inflight, repairVars, apiKey>>

\* the setTimeout callback of createProject (server.js:259-264)
Expire(projectId) ==
    /\ projectId \in timers
    /\ timers' = timers \ {projectId}
    /\ projects' = IF projectId \in projects THEN projects \ {projectId} ELSE projects
    /\ res' = NoResponse
    /\ UNCHANGED <<heap, nextId, inflight, repairVars, apiKey>>

Init ==
    /\ projects = {}
    /\ heap = <<>>
    /\ timers = {}
    /\ nextId = 1
    /\ inflight = EmptyBag
    /\ res = NoResponse
    /\ str = <<>>
    /\ ret = Returned(JNull)
    /\ pc = "idle"
    /\ apiKey \in BOOLEAN

Next ==
    \/ \E body \in ProjectRequests : GenerateProject(body)
    \/ NextPageNoProjectId
    \/ \E projectId \in RequestIds : NextPageNotFound(projectId)
    \/ \E projectId \in RequestIds : NextPageComplete(projectId)
    \/ \E projectId \in RequestIds : NextPageStart(projectId)
    \/ \E req \in BagToSet(inflight), outcome \in GenOutcomes : NextPageResume(req, outcome)
    \/ \E projectId \in RequestIds : ProjectStatus(projectId)
    \/ \E projectId \in RequestIds : ProjectPages(projectId)
    \/ \E projectId \in timers : Expire(projectId)

Spec == Init /\ [][Next]_vars

----------------------------------------------------------------------------
(* Properties of the session manager *)

Objects == 1..Len(heap)

\* the step appends a page to the object of session id
Records(id) == Len(heap'[id].pages) = Len(heap[id].pages) + 1

lastPage(project) == project.pages[Len(project.pages)]

\* C1: overlapping generate-next-page requests never record two pages for the
\* same pending-queue head, and the produced-page counter advances by one per
\* queue entry consumed.  getNextPageType infers no type but 'detail', so a
\* page of any other type was generated for a queue head: in every session the
\* pages of such types are no more than the queue entries consumed so far.
C1_OnePagePerQueueHead ==
    \A id \in Objects :
        LET project == heap[id]
            inferred ==
                Cardinality({i \in 1..Len(project.pages) :
                                project.pages[i].type = PAGE_TYPES.DETAIL})
        IN  project.currentPageIndex - inferred
                <= project.totalPages - Len(project.pendingPages)

\* C2: first-writer-wins: a design-system colour that is set is never
\* changed by a later recorded page.
C2_FirstWriterWins ==
    [][\A id \in Objects :
        LET old == heap[id].designSystem.colors
            new == heap'[id].designSystem.colors
        IN  /\ Truthy(old.background) => new.background = old.background
            /\ Truthy(old.primary) => new.primary = old.primary]_vars

\* C3: with an empty pending queue and no interactive element discovered,
\* getNextPageType returns the terminal value, whatever the number of pages.
C3_TerminalWhenNothingDiscovered ==
    \A id \in Objects :
        (heap[id].pendingPages = <<>> /\ heap[id].interactiveElements = <<>>)
            => getNextPageType(heap[id]) = Undefined

\* C4: with an empty pending queue, getNextPageType returns 'detail' exactly
\* when the interactive elements outnumber the produced pages, and the
\* terminal value otherwise.
C4_DetailOnlyWhenElementsExceedPages ==
    \A id \in Objects :
        heap[id].pendingPages = <<>> =>
            getNextPageType(heap[id]) =
                IF Len(heap[id].interactiveElements) > Len(heap[id].pages)
                THEN PAGE_TYPES.DETAIL ELSE Undefined

\* C5: once a session is completed, no step appends a page to it or changes
\* its pending queue, counter, interactive elements or design system.
C5_CompletedIsFrozen ==
    [][\A id \in Objects :
        heap[id].status = "completed" =>
            /\ heap'[id].pages = heap[id].pages
            /\ heap'[id].pendingPages = heap[id].pendingPages
            /\ heap'[id].currentPageIndex = heap[id].currentPageIndex
            /\ heap'[id].interactiveElements = heap[id].interactiveElements
            /\ heap'[id].designSystem = heap[id].designSystem]_vars

\* C6: recording a page of type t removes the first occurrence of t from the
\* pending queue and nothing else, keeping the order of the rest; the queue is
\* unchanged when t does not occur in it.
C6_RemovesFirstMatchOnly ==
    [][\A id \in Objects :
        Records(id) =>
            LET t == lastPage(heap'[id]).type
                old == heap[id].pendingPages
                new == heap'[id].pendingPages
            IN  IF \E i \in 1..Len(old) : old[i] = t
                THEN \E i \in 1..Len(old) :
                        /\ old[i] = t
                        /\ \A j \in 1..(i - 1) : old[j] # t
                        /\ Len(new) = Len(old) - 1
                        /\ \A j \in 1..Len(new) :
                                new[j] = IF j < i THEN old[j] ELSE old[j + 1]
                ELSE new = old]_vars

\* a session requested as detail, home, detail whose second 'detail' page was
\* recorded while 'home' was still pending: the middle entry stays
C6_Witness ==
    \E id \in Objects :
        /\ heap[id].totalPages = 3
        /\ heap[id].pendingPages = <<"home">>
        /\ heap[id].completedPages = <<"detail", "detail">>

\* the step serves a lookup of session id: a status or pages query, or a
\* generate-next-page request up to its answer or its await
LooksUp(id) ==
    \/ ProjectStatus(id)
    \/ ProjectPages(id)
    \/ NextPageNotFound(id)
    \/ NextPageComplete(id)
    \/ NextPageStart(id)

\* C7: a lookup of an id that is not registered, never created or expired
\* alike, is answered 404 with the one body 'Project not found or expired'
\* and changes nothing.
C7_UnknownAndExpiredAlike ==
    [][\A id \in RequestIds :
        (id \notin projects /\ LooksUp(id)) =>
            /\ res' = NotFound
            /\ projects' = projects
            /\ heap' = heap
            /\ inflight' = inflight]_vars

\* a lookup was answered 404 while an expired id and a never created id exist
C7_Witness ==
    /\ res = NotFound
    /\ \E id \in RequestIds : id < nextId /\ id \notin projects

\* C8: removal by expiry is absorbing: an expired session is never put back,
\* its object is not changed any more, every later lookup of it is answered
\* not found, and a request that was awaiting
\* generation when the timer fired completes with its 200 response, not with
\* the 500 of the handler's catch.
C8_ExpiryIsAbsorbing ==
    [][/\ \A id \in Objects :
            id \notin projects =>
                /\ id \notin projects'
                /\ heap'[id] = heap[id]
                /\ LooksUp(id) => res' = NotFound
       /\ \A req \in BagToSet(inflight) :
            (/\ req.projectId \notin projects
             /\ \E outcome \in GenOutcomes : NextPageResume(req, outcome))
                => res'.code = 200]_vars

\* a generate-next-page request finished after its session had expired
C8_Witness ==
    /\ res.op = "generate-next-page"
    /\ res.status = "in_progress"
    /\ res.projectId \notin projects

\* C9: a session leaves the registry exactly in the step in which its timer
\* fires, a timer is only ever set for a new session and only ever cleared by
\* firing, and if timers eventually fire every session is eventually removed.
C9_RemovedExactlyByTimer ==
    /\ [][\A id \in ProjectIds :
            /\ (id \in projects /\ id \notin projects')
                    <=> (id \in timers /\ id \notin timers')
            /\ (id \notin timers /\ id \in timers') => id = nextId]_vars
    /\ \A id \in ProjectIds : (id \in projects) ~> (id \notin projects)

\* a session that had reached 'completed' was removed by its timer
C9_Witness ==
    \E id \in Objects :
        /\ id \notin projects
        /\ heap[id].status = "completed"

\* timers eventually fire
FairSpec == Spec /\ \A id \in ProjectIds : WF_vars(Expire(id))

\* the step changes session id: its object, its registry entry or its timer
Touched(id) ==
    \/ heap'[id] # heap[id]
    \/ (id \in projects') # (id \in projects)
    \/ (id \in timers') # (id \in timers)

\* the step is an operation on session id: the rest of a generate-next-page
\* request that named id (addPageToProject), the completion transition
\* (updateProject) or the expiry of id; createProject operates on the session
\* it creates, which is none of the existing ones
OperatesOn(id) ==
    \/ \E req \in BagToSet(inflight), outcome \in GenOutcomes :
            req.projectId = id /\ NextPageResume(req, outcome)
    \/ NextPageComplete(id)
    \/ Expire(id)

\* C20: every operation on one session (createProject, addPageToProject,
\* updateProject, the completion transition, expiry) leaves every other
\* session of the registry unchanged, in every interleaving of requests on
\* different sessions: a step that changes an existing session is an
\* operation on that session, and a step changes at most one of them.
C20_OtherSessionsUnchanged ==
    [][/\ \A id \in Objects : Touched(id) => OperatesOn(id)
       /\ \A a, b \in Objects : Touched(a) /\ Touched(b) => a = b]_vars

\* two sessions, one completed after two recorded pages and then expired; the
\* other, created for the single page 'home', still active, nothing recorded
C20_Witness ==
    \E a, b \in Objects :
        /\ a # b
        /\ Len(heap[a].pages) = 2 /\ heap[a].status = "completed"
        /\ a \notin projects /\ a \notin timers
        /\ heap[b].pages = <<>> /\ heap[b].status = "active"
        /\ heap[b].pendingPages = <<PAGE_TYPES.HOME>>
        /\ b \in projects /\ b \in timers

\* the direct children of the first frame of a page that are buttons or
\* inputs, as their positions among the children, in increasing order
wantedChildren(pageJson) ==
    IF pageJson.frames = <<>> \/ pageJson.frames[1].childrenKind # "list"
    THEN <<>>
    ELSE LET children == pageJson.frames[1].children
             wanted == {i \in 1..Len(children) :
                            children[i].type \in {"button", "input"}}
         IN  CHOOSE f \in [1..Cardinality(wanted) -> wanted] :
                \A a, b \in 1..Cardinality(wanted) : a < b => f[a] < f[b]

\* C21: addPageToProject adds to the session's interactive elements exactly
\* one record for each child of type 'button' or 'input' among the direct
\* children of the page's first frame, in child order, and none for nested
\* elements, other types or other frames: in a step that records a page the
\* old elements stay a prefix, and the added ones are, one for one and in
\* order, those children, with their type and position.
C21_OneRecordPerDirectChild ==
    [][\A id \in Objects :
        Records(id) =>
            LET page == lastPage(heap'[id])
                children == page.json.frames[1].children
                wanted == wantedChildren(page.json)
                before == heap[id].interactiveElements
                after == heap'[id].interactiveElements
            IN  /\ Len(after) = Len(before) + Len(wanted)
                /\ SubSeq(after, 1, Len(before)) = before
                /\ \A k \in 1..Len(wanted) :
                    /\ after[Len(before) + k].index = wanted[k] - 1
                    /\ after[Len(before) + k].type = children[wanted[k]].type]_vars

\* a session whose only page has a nested button, a direct button and a
\* second frame with a button: one element, the direct button at position 1
C21_Witness ==
    \E id \in Objects :
        /\ Len(heap[id].pages) = 1
        /\ heap[id].pages[1].json = DocDark
        /\ Len(heap[id].interactiveElements) = 1
        /\ heap[id].interactiveElements[1].index = 1
        /\ heap[id].interactiveElements[1].type = "button"

\* the step is a read: the status route, the pages route, or the part of
\* generate-next-page that looks the session up and calls getNextPageType,
\* up to its 404 answer or its await
ReadOnlyStep ==
    \E projectId \in RequestIds :
        \/ ProjectStatus(projectId)
        \/ ProjectPages(projectId)
        \/ NextPageNotFound(projectId)
        \/ NextPageStart(projectId)

\* C27: the read-only operations (getNextPageType, GET status, GET pages)
\* leave the registry and every field of every session unchanged, for
\* existing and for unknown ids.
C27_ReadsChangeNothing ==
    [][ReadOnlyStep => UNCHANGED <<projects, heap, timers, nextId>>]_vars

\* the status of a session with one recorded page was just read, the session
\* is still registered, and an unknown id can still be asked for
C27_Witness ==
    /\ res.op = "status" /\ res.code = 200
    /\ res.projectId \in projects
    /\ Len(heap[res.projectId].pages) = 1
    /\ res.status = heap[res.projectId].status
    /\ ~getProject(nextId)

\* C28: createProject registers a session with status 'active', no pages,
\* produced-page counter 0, empty design-system colours, no interactive
\* elements and a pending queue equal, entry for entry and in order, to the
\* requested page list; POST /api/generate-project uses a non-empty explicit
\* list verbatim and the keyword-derived sequence only when the list is
\* missing or empty. (A request that names no project or no description is
\* answered 400 and creates nothing; the property is about the requests
\* the route accepts.)
C28_CreatedAsRequested ==
    [][\A body \in ProjectRequests :
        GenerateProject(body) /\ res'.code = 200 =>
            LET project == heap'[nextId]
            IN  /\ Len(heap') = nextId
                /\ nextId \in projects'
                /\ project.status = "active"
                /\ project.pages = <<>>
                /\ project.currentPageIndex = 0
                /\ project.designSystem.colors.background = Undefined
                /\ project.designSystem.colors.primary = Undefined
                /\ project.interactiveElements = <<>>
                /\ project.pendingPages =
                        IF body.pages # <<>> THEN body.pages
                        ELSE analyzeDescriptionForPages(body.description)]_vars

\* two sessions just created: one from the explicit list detail, home,
\* detail, the other from the description alone
C28_Witness ==
    \E a, b \in Objects :
        /\ heap[a].pages = <<>> /\ heap[b].pages = <<>>
        /\ heap[a].pendingPages = <<"detail", "home", "detail">>
        /\ heap[b].pendingPages = analyzeDescriptionForPages(D_Store)
        /\ heap[b].pendingPages # heap[a].pendingPages
        /\ heap[a].status = "active" /\ heap[b].status = "active"

\* C30: a session's status only ever moves from 'active' to 'completed': it
\* is set to 'completed' only in a step in which getNextPageType returned
\* the terminal value for that session, it never returns to 'active', and in
\* every reachable state a session with status 'completed' has
\* getNextPageType equal to the terminal value.
C30_CompletedIsTerminal ==
    /\ [][\A id \in Objects :
            /\ (heap[id].status = "completed" => heap'[id].status = "completed")
            /\ (heap[id].status # "completed" /\ heap'[id].status = "completed")
                    => getNextPageType(heap[id]) = Undefined]_vars
    /\ [](\A id \in Objects :
            /\ heap[id].status \in {"active", "completed"}
            /\ heap[id].status = "completed"
                    => getNextPageType(heap[id]) = Undefined)


\* C31: in every reachable state of every session, currentPageIndex equals
\* the length of pages and the length of completedPages, and the i-th page of
\* pages (counted from 0) has index i, so that page indices and page ids
\* within one session are pairwise distinct, also when generate-next-page
\* requests overlap.
C31_IndexIsPosition ==
    \A id \in Objects :
        LET project == heap[id]
        IN  /\ project.currentPageIndex = Len(project.pages)
            /\ project.currentPageIndex = Len(project.completedPages)
            /\ \A i \in 1..Len(project.pages) :
                    /\ project.pages[i].index = i - 1
                    /\ project.pages[i].id = <<id, i - 1>>
            /\ \A i, j \in 1..Len(project.pages) :
                    i # j => /\ project.pages[i].index # project.pages[j].index
                             /\ project.pages[i].id # project.pages[j].id

\* two requests overlapped on a session created for the single page 'home':
\* both were started for the same queue head and both recorded a 'home' page
C31_Witness ==
    \E id \in Objects :
        /\ heap[id].totalPages = 1
        /\ Len(heap[id].pages) = 2
        /\ heap[id].pages[1].type = PAGE_TYPES.HOME
        /\ heap[id].pages[2].type = PAGE_TYPES.HOME
        /\ heap[id].pages[1].index = 0
        /\ heap[id].pages[2].index = 1

\* C32: in every reachable state of every session the produced-page counter
\* reported as progress.current (currentPageIndex) does not exceed
\* progress.total (totalPages), and currentPageIndex plus the length of the
\* pending queue equals totalPages.
C32_CounterWithinTotal ==
    \A id \in Objects :
        /\ heap[id].currentPageIndex <= heap[id].totalPages
        /\ heap[id].currentPageIndex + Len(heap[id].pendingPages)
                = heap[id].totalPages

\* the sequence arr without its i-th entry
without(arr, i) == SubSeq(arr, 1, i - 1) \o SubSeq(arr, i + 1, Len(arr))

\* C33: within one session the list of produced pages is append-only and
\* the pending queue never grows: every step leaves pages unchanged or
\* appends exactly one page at the end without altering the earlier pages,
\* and every step leaves the pending queue unchanged or removes exactly one
\* entry from it.
C33_AppendOnly ==
    [][\A id \in Objects :
        LET old == heap[id]
            new == heap'[id]
        IN  /\ \/ new.pages = old.pages
               \/ /\ Len(new.pages) = Len(old.pages) + 1
                  /\ SubSeq(new.pages, 1, Len(old.pages)) = old.pages
            /\ \/ new.pendingPages = old.pendingPages
               \/ \E i \in 1..Len(old.pendingPages) :
                    new.pendingPages = without(old.pendingPages, i)]_vars

\* a session created for detail, home, detail with two pages recorded, of
\* different types, and one entry left in the queue
C33_Witness ==
    \E id \in Objects :
        /\ heap[id].totalPages = 3
        /\ Len(heap[id].pages) = 2
        /\ heap[id].pages[1].type # heap[id].pages[2].type
        /\ heap[id].pendingPages = <<PAGE_TYPES.DETAIL>>

\* the parts of a session the recording of a page writes
recorded(project) ==
    <<project.pages, project.completedPages, project.pendingPages,
      project.currentPageIndex, project.interactiveElements,
      project.designSystem>>

\* C34: if a POST /api/generate-next-page request ends with an error
\* response (HTTP 500), the session's pages, completedPages, pending queue,
\* produced-page counter, interactive elements and design system are the
\* same as before the request.
C34_ErrorLeavesSessionUnchanged ==
    [][\A req \in BagToSet(inflight), outcome \in GenOutcomes :
        NextPageResume(req, outcome) /\ res'.code = 500
            => recorded(heap'[req.projectId]) = recorded(heap[req.projectId])]_vars

----------------------------------------------------------------------------
(* Sequential use of one session: a client that creates one session from an  *)
(* explicit page list and then calls generate-next-page again and again,     *)
(* each call after the previous one has been answered; no timer fires.       *)

SeqRequests == {body \in ProjectRequests : Len(body.pages) > 0}

SeqNext ==
    \/ \E body \in SeqRequests : heap = <<>> /\ GenerateProject(body)
    \/ \E projectId \in projects :
            inflight = EmptyBag /\ NextPageStart(projectId)
    \/ \E req \in BagToSet(inflight), outcome \in GenOutcomes :
            NextPageResume(req, outcome)
    \/ \E projectId \in projects :
            inflight = EmptyBag /\ NextPageComplete(projectId)

\* the client keeps calling and the generator keeps answering
FairSeqSpec == Init /\ [][SeqNext]_vars /\ WF_vars(SeqNext)

\* every page recorded in the session carries a button or an input as a
\* direct child of its first frame
EveryPageInteractive(project) ==
    \A i \in 1..Len(project.pages) :
        LET found == extractInteractiveElements(project.pages[i].json)
        IN  ~found.threw /\ found.elements # <<>>

\* on a sequential run a session whose recorded pages all carry such a child
\* is active and has a next page: the call that would complete it
\* (server.js:1183-1190) is never the one that is made
InteractiveSessionGoesOn ==
    \A id \in Objects :
        EveryPageInteractive(heap[id]) =>
            /\ heap[id].status = "active"
            /\ getNextPageType(heap[id]) # Undefined

\* C19: under repeated sequential generate-next-page calls every session
\* eventually reaches status 'completed', also when every generated page
\* carries a button or an input as a direct child of its first frame.  A
\* session is completed only by a call that finds getNextPageType null
\* (server.js:1183-1190), and a recorded page with such a child adds one page
\* and one element or more, so that the test of server.js:360 never turns
\* once it has answered 'detail'; such a run completes exactly when the
\* first call after the pending queue has emptied completes it: a session
\* with an empty queue all of whose pages carry such a child has no next
\* page.
C19_SequentialRunCompletes ==
    \A id \in Objects :
        (/\ inflight = EmptyBag
         /\ heap[id].pendingPages = <<>>
         /\ heap[id].pages # <<>>
         /\ EveryPageInteractive(heap[id]))
            => getNextPageType(heap[id]) = Undefined

\* C29: in a sequential run of generate-next-page on a session created with
\* the requested sequence S, the types of the first |S| recorded pages equal
\* S in order, and an inferred 'detail' page is recorded only after every
\* entry of S has been recorded: at every moment the recorded pages are a
\* prefix of S, the rest of S being the pending queue, or S followed by
\* 'detail' pages only.
C29_RecordedInRequestedOrder ==
    \A id \in Objects :
        \E body \in SeqRequests :
            LET S == body.pages
                project == heap[id]
                n == Len(project.pages)
            IN  /\ Len(S) = project.totalPages
                /\ \A i \in 1..n :
                        project.pages[i].type =
                            IF i <= Len(S) THEN S[i] ELSE PAGE_TYPES.DETAIL
                /\ project.pendingPages =
                        IF n < Len(S) THEN SubSeq(S, n + 1, Len(S)) ELSE <<>>

\* a session created for detail, home, detail with those three pages
\* recorded in that order
C29_Witness ==
    \E id \in Objects :
        /\ heap[id].totalPages = 3
        /\ Len(heap[id].pages) = 3
        /\ heap[id].pages[1].type = PAGE_TYPES.DETAIL
        /\ heap[id].pages[2].type = PAGE_TYPES.HOME
        /\ heap[id].pages[3].type = PAGE_TYPES.DETAIL
        /\ heap[id].pendingPages = <<>>

----------------------------------------------------------------------------
(* Runs of repairJSON on one input *)

MaxStrLen == 3

RepairAlphabet == {"{", "}", "\"", ":", ",", "a", "1", " "}

\* an object cut before its closing brace, and a braced span that does not parse
S_Truncated == <<"{","\"","a","\"",":","1">>
S_BadSpan == <<"x","{","a","}","y">>
S_Fenced == FenceJson \o <<"\n","{","a",":","1",",","}">> \o Fence
\* single-quoted strings; two frames with no comma between them; a bare key
\* followed by a line comment
S_SingleQuoted == <<"{","'","a","'",":","'","b","'","}">>
S_AdjacentFrames ==
    <<"{","\"","f","r","a","m","e","s","\"",":","[","{","}","{","}","]","}">>
S_Commented == <<"{","a",":","1","}"," ","/","/","x">>
\* frames is a number below and above the range of a double, and an object
\* with an integer-like key after another key
S_FramesUnderflow == <<"{","\"","f","r","a","m","e","s","\"",":","1","e","-","4","0","0","}">>
S_FramesOverflow == <<"{","\"","f","r","a","m","e","s","\"",":","1","e","4","0","0","}">>
S_IndexKey == <<"{","\"","a","\"",":","1",",","\"","1","\"",":","2","}">>

JNumber(n) == [t |-> "number", m |-> <<Digits[n + 1]>>, e |-> 0]
Member(key, value) == [k |-> key, v |-> value]

\* the JSON text of a value of the model (numbers 0..9, strings without quote
\* or backslash); trailing: a comma is written before every closing brace and
\* bracket of a non-empty object or array; bare: keys are written unquoted
RECURSIVE stringify(_, _, _)
RECURSIVE stringifyItems(_, _, _, _)
RECURSIVE stringifyMembers(_, _, _, _)
stringifyItems(items, i, trailing, bare) ==
    IF i > Len(items) THEN <<>>
    ELSE stringify(items[i], trailing, bare)
         \o (IF i < Len(items) \/ trailing THEN <<",">> ELSE <<>>)
         \o stringifyItems(items, i + 1, trailing, bare)

stringifyMembers(members, i, trailing, bare) ==
    IF i > Len(members) THEN <<>>
    ELSE (IF bare THEN members[i].k ELSE <<"\"">> \o members[i].k \o <<"\"">>)
         \o <<":">> \o stringify(members[i].v, trailing, bare)
         \o (IF i < Len(members) \/ trailing THEN <<",">> ELSE <<>>)
         \o stringifyMembers(members, i + 1, trailing, bare)

stringify(value, trailing, bare) ==
    CASE value.t = "object" ->
            <<"{">> \o stringifyMembers(value.v, 1, trailing, bare) \o <<"}">>
      [] value.t = "array" ->
            <<"[">> \o stringifyItems(value.v, 1, trailing, bare) \o <<"]">>
      [] value.t = "string" -> <<"\"">> \o value.v \o <<"\"">>
      [] value.t = "number" -> value.m
      [] value.t = "true" -> <<"t","r","u","e">>
      [] value.t = "false" -> <<"f","a","l","s","e">>
      [] value.t = "null" -> <<"n","u","l","l">>

V_frame == JString(<<"f","r","a","m","e">>)

\* documents with a frames array; the last five carry a string value that
\* holds ',' and ':', '//', '}{', an apostrophe, or ',}'
V_Empty == JObject(<<Member(K_frames, JArray(<<>>))>>)
V_Frame == JObject(<<Member(K_frames, JArray(<<JObject(<<Member(K_type, V_frame)>>)>>))>>)
V_Plain ==
    JObject(<<Member(K_frames, JArray(<<JObject(<<Member(<<"n">>, JNumber(1))>>)>>)),
              Member(<<"t">>, JString(<<"a","b">>))>>)
V_Comma ==
    JObject(<<Member(K_frames, JArray(<<>>)),
              Member(<<"t">>, JString(<<"a",","," ","b",":","c">>))>>)
V_Url ==
    JObject(<<Member(K_frames, JArray(<<>>)),
              Member(<<"u">>, JString(<<"/","/","x">>))>>)
V_Braces ==
    JObject(<<Member(K_frames, JArray(<<>>)),
              Member(<<"t">>, JString(<<"}","{">>))>>)
V_Apostrophe ==
    JObject(<<Member(K_frames, JArray(<<>>)),
              Member(<<"t">>, JString(<<"i","t","'","s">>))>>)
V_CommaBrace ==
    JObject(<<Member(K_frames, JArray(<<>>)),
              Member(<<"t">>, JString(<<",","}">>))>>)

\* documents without a frames array
V_Name == JObject(<<Member(<<"n","a","m","e">>, JString(<<"x">>))>>)
V_SingleFrame == JObject(<<Member(K_type, V_frame)>>)
V_FramesNumber == JObject(<<Member(K_frames, JNumber(5))>>)
V_FramesString == JObject(<<Member(K_frames, JString(<<"a","b">>))>>)

\* the documents of the model, by number: 1..3 have a frames array and plain
\* strings, 4..8 a frames array and a string of the kinds above, 9..12 no
\* frames array
Docs ==
    <<V_Empty, V_Frame, V_Plain,
      V_Comma, V_Url, V_Braces, V_Apostrophe, V_CommaBrace,
      V_Name, V_SingleFrame, V_FramesNumber, V_FramesString>>
DocIds == 1..Len(Docs)
PlainFrameDocs == 1..3
FrameDocs == 1..8

\* a text between Markdown fences
fenced(fence, text) == fence \o <<"\n">> \o text \o <<"\n">> \o Fence
Fences == {Fence, FenceJson}

\* prose before and after an embedded object
P_Here == <<"H","e","r","e"," ","i","s"," ","i","t"," ">>
P_Done == <<" ","d","o","n","e">>
P_BracesBefore == <<"u","s","e"," ","{","x","}"," ">>
P_BracesAfter == <<" ","{","y","}">>
ProseBefore == {<<>>, P_Here, P_BracesBefore}
ProseAfter == {<<>>, P_Done, P_BracesAfter}

RepairInputs ==
    UNION {[1..n -> RepairAlphabet] : n \in 0..MaxStrLen}
    \cup {S_Truncated, S_BadSpan, S_Fenced}
    \cup {S_SingleQuoted, S_AdjacentFrames, S_Commented}
    \cup {S_FramesUnderflow, S_FramesOverflow, S_IndexKey}
    \cup {stringify(Docs[d], trailing, bare) :
            d \in DocIds, trailing \in BOOLEAN, bare \in BOOLEAN}
    \cup {fenced(fence, stringify(Docs[d], FALSE, FALSE)) :
            fence \in Fences, d \in DocIds}
    \cup {before \o stringify(Docs[d], FALSE, FALSE) \o after :
            before \in ProseBefore, after \in ProseAfter, d \in DocIds}

RepairInit ==
    /\ projects = {}
    /\ heap = <<>>
    /\ timers = {}
    /\ nextId = 1
    /\ inflight = EmptyBag
    /\ res = NoResponse
    /\ str \in RepairInputs
    /\ ret = Returned(JNull)
    /\ pc = "call"
    /\ apiKey = TRUE

\* a request to a handler that calls the generator, with the text the
\* generator will return, on a server with or without GEMINI_API_KEY
DesignInit ==
    /\ projects = {}
    /\ heap = <<>>
    /\ timers = {}
    /\ nextId = 1
    /\ inflight = EmptyBag
    /\ res = NoResponse
    /\ str \in RepairInputs
    /\ ret = Returned(JNull)
    /\ pc = "call"
    /\ apiKey \in BOOLEAN

\* the call designJson = repairJSON(text) (server.js:1256)
RepairCall ==
    /\ pc = "call"
    /\ ret' = repairJSON(str)
    /\ pc' = "done"
    /\ UNCHANGED <<str, sessionVars>>

\* a call parseJSONResponse(text) (part_000:65)
ParseCall ==
    /\ pc = "call"
    /\ ret' = parseJSONResponse(str)
    /\ pc' = "parsed"
    /\ UNCHANGED <<str, sessionVars>>

\* prompts of POST /api/generate-design: <<>> stands for a missing or empty
\* prompt
DesignPrompts == {<<>>, N_Shop}

\* POST /api/generate-design up to its await of the generator
\* (server.js:977-1022): a request without a prompt is answered 400 and one
\* on a server without GEMINI_API_KEY 500, both before the generator is
\* called; any other calls the generator and is suspended with its prompt
GenerateDesignStart(prompt) ==
    /\ pc = "call"
    /\ IF prompt = <<>>
       THEN /\ ret' = Refused(400, "Prompt is required")
            /\ pc' = "refused"
       ELSE IF ~apiKey
       THEN /\ ret' = Refused(500,
                              "GEMINI_API_KEY not configured")
            /\ pc' = "refused"
       ELSE /\ ret' = [prompt |-> prompt]
            /\ pc' = "generating"
    /\ UNCHANGED <<str, sessionVars>>

\* POST /api/generate-design from its await on (server.js:1022-1088): the
\* generator has answered with its text and the handler answers with the
\* design it made of it, or the call has failed and the handler's catch
\* (server.js:1041-1058) has put the fallback design in its place
GenerateDesignResume(failed) ==
    /\ pc = "generating"
    /\ ret' = IF failed THEN designFrom(ret.prompt, Thrown)
              ELSE generateDesign(ret.prompt, str)
    /\ pc' = IF failed THEN "substituted" ELSE "designed"
    /\ UNCHANGED <<str, sessionVars>>

\* POST /api/generate-next-page choosing the document of the page it records
\* (server.js:1256-1296), for the first page of a new session; the handler
\* comes here only with GEMINI_API_KEY (server.js:1208)
PageDesignCall ==
    /\ pc = "call"
    /\ apiKey
    /\ ret' = nextPageDesign(PAGE_TYPES.HOME,
                             newProject(1, N_Shop, <<PAGE_TYPES.HOME>>), str)
    /\ pc' = "page"
    /\ UNCHANGED <<str, sessionVars>>

RepairNext ==
    \/ RepairCall
    \/ ParseCall

RepairSpec == RepairInit /\ [][RepairNext]_vars

\* the handlers that turn the generator's text into a design
DesignNext ==
    \/ \E prompt \in DesignPrompts : GenerateDesignStart(prompt)
    \/ \E failed \in BOOLEAN : GenerateDesignResume(failed)
    \/ PageDesignCall

DesignSpec == DesignInit /\ [][DesignNext]_vars

\* C10: for every input, repairJSON returns to its caller (a value or a
\* failure value) and lets no exception out.
C10_RepairNeverThrows == pc = "done" => ~ret.threw

\* the run called one of the two repair pipelines and it ended
Ran == pc \in {"done", "parsed"}

\* what the pipeline of this run makes of another text
pipelineOn(text) ==
    IF pc = "done" THEN repairJSON(text) ELSE parseJSONResponse(text)

\* the run returned the structure value
Gives(value) == ~ret.threw /\ sameValue(ret.value, value)

\* C11: on well-formed JSON whose top-level object has a frames array,
\* repairJSON and parseJSONResponse return the value of a direct parse of the
\* text, which for the text of a document of the model is that document.
C11_WellFormedIsDirectParse ==
    Ran =>
        /\ (/\ ~JSONparse(str).threw
            /\ isArray(getMember(JSONparse(str).value, K_frames)))
                => Gives(JSONparse(str).value)
        /\ \A d \in FrameDocs :
                str = stringify(Docs[d], FALSE, FALSE) => Gives(Docs[d])

\* parseJSONResponse returned the document whose string value holds '//', and
\* repairJSON the one whose string value holds '}{'
C11_Witness ==
    \/ pc = "parsed" /\ str = stringify(V_Url, FALSE, FALSE) /\ Gives(V_Url)
    \/ pc = "done" /\ str = stringify(V_Braces, FALSE, FALSE) /\ Gives(V_Braces)

\* C12: a well-formed document with a frames array wrapped in Markdown
\* fences gives the same result as the document alone, whatever characters
\* its string values hold.
C12_FencedSameAsAlone ==
    \A d \in FrameDocs, fence \in Fences :
        LET alone == stringify(Docs[d], FALSE, FALSE)
        IN  (Ran /\ str = fenced(fence, alone)) =>
                /\ ret.threw = pipelineOn(alone).threw
                /\ sameValue(ret.value, pipelineOn(alone).value)

\* C13: prose with one well-formed object (with a frames array) embedded in
\* it, the prose possibly holding braces of its own, gives the embedded object.
C13_EmbeddedObjectRecovered ==
    \A d \in FrameDocs, before \in ProseBefore, after \in ProseAfter :
        (Ran /\ str = before \o stringify(Docs[d], FALSE, FALSE) \o after)
            => Gives(Docs[d])

\* C14: a document with a frames array written with trailing commas before
\* its closing braces and brackets gives the document.
C14_TrailingCommasRepaired ==
    \A d \in FrameDocs :
        (Ran /\ str = stringify(Docs[d], TRUE, FALSE)) => Gives(Docs[d])

\* C15: a document written with bare identifier keys gives the document
\* (for parseJSONResponse, which reports a value without frames as failure,
\* a document with a frames array).
C15_BareKeysRepaired ==
    \A d \in DocIds :
        (/\ Ran
         /\ pc = "parsed" => d \in FrameDocs
         /\ str = stringify(Docs[d], FALSE, TRUE)) => Gives(Docs[d])

\* C18: the design returned by generate-design and the page document
\* recorded by generate-next-page have a frames value that is a non-empty
\* list, whatever the generator's text and also when the generator fails.
C18_FramesNonEmptyList ==
    pc \in {"designed", "substituted", "page"} =>
        /\ isArray(framesOf(ret))
        /\ framesOf(ret).v # <<>>

\* the text without its fence markers, trimmed (server.js:743, part_000:82)
unfenced(s) == trim(removeFence(removeFence(s, 1, FenceJson), 1, Fence))

\* the four structural fixes that one or the other pipeline has, all applied
fourFixes(s) ==
    insertBraceCommas(
        quoteKeys(removeTrailingCommas(doubleQuotes(s), 1), 1), 1)

\* the pipeline of this run reported failure: repairJSON let an exception
\* out, parseJSONResponse returned null
ReportedFailure ==
    \/ pc = "done" /\ ret.threw
    \/ pc = "parsed" /\ ~ret.threw /\ ret.value.t = "null"

\* C23: before the repair pipeline reports failure for an input it has
\* applied every stage-3 fix to it (comma between adjacent braces, trailing
\* commas, bare keys, single quotes, bare hex colours).  For the four fixes
\* that exist in the code: an input for which failure is reported does not
\* parse, to a value with frames in the case of parseJSONResponse, once its
\* fences are removed and these fixes are applied.
C23_FailureOnlyAfterEveryFix ==
    ReportedFailure =>
        LET fixed == JSONparse(fourFixes(unfenced(str)))
        IN  IF pc = "done" THEN fixed.threw ELSE ~hasFrames(fixed)

\* the generator's text parses to a single frame object: type 'frame' and no
\* frames member
IsSingleFrame(result) ==
    /\ ~result.threw
    /\ sameValue(getMember(result.value, K_type), V_frame)
    /\ getMember(result.value, K_frames).t = "undefined"

\* C25: when the generator's text parses to a single frame object, the
\* design that POST /api/generate-design returns is the one-element list
\* {frames: [that object]} and not the fallback document.
C25_SingleFramePromoted ==
    (pc = "designed" /\ IsSingleFrame(JSONparse(str))) =>
        /\ ret.kind = "wrapped"
        /\ framesOf(ret).t = "array"
        /\ Len(framesOf(ret).v) = 1
        /\ sameValue(framesOf(ret).v[1], JSONparse(str).value)

\* the pipeline of this run returned a success value
ReturnedSuccess == Ran /\ ~ret.threw /\ ~ReportedFailure

\* C24: whenever repairJSON or parseJSONResponse returns a success value,
\* that value has a frames member that is a list; a value without frames, or
\* with frames that is not a list, is reported as failure.
C24_SuccessHasFramesList ==
    ReturnedSuccess => isArray(getMember(ret.value, K_frames))

\* the text holds a Markdown fence marker
hasFence(s) == includes(s, Fence)

\* the text holds a single-line comment or a block comment
hasComment(s) ==
    \/ includes(s, <<"/", "/">>)
    \/ \E i, j \in 1..Len(s) :
            /\ i + 1 < j /\ j < Len(s)
            /\ s[i] = "/" /\ s[i + 1] = "*" /\ s[j] = "*" /\ s[j + 1] = "/"

\* the text to which the pipeline of this run applies its structural fixes:
\* repairJSON after its fence removal (server.js:743), parseJSONResponse
\* after its fence and comment removal (part_000:82-86)
fixesAppliedTo(s) ==
    IF pc = "done" THEN unfenced(s)
    ELSE removeBlockComments(removeLineComments(unfenced(s), 1), 1)

\* the run went on to its structural fixes: the parse of the text as given
\* failed in repairJSON; the first two attempts returned nothing in
\* parseJSONResponse
AppliedFixes ==
    \/ pc = "done" /\ JSONparse(str).threw
    \/ /\ pc = "parsed"
       /\ ~hasFrames(JSONparse(str))
       /\ ~hasFrames(JSONparse(fixesAppliedTo(str)))

\* C26: in every run of the repair pipeline decoration stripping (fence
\* markers, single-line comments, block comments) comes before any
\* structural fix, and no structural fix is applied to text that still holds
\* a fence marker or a comment.
C26_FixesOnlyOnStrippedText ==
    AppliedFixes =>
        /\ ~hasFence(fixesAppliedTo(str))
        /\ ~hasComment(fixesAppliedTo(str))

----------------------------------------------------------------------------
(* Runs of analyzeDescriptionForPages on one description *)

\* words of a description (the handler rejects an empty description)
MaxKeywords == 2

W_login == <<"l","o","g","i","n">>
W_auth == <<"a","u","t","h">>

Words ==
    { <<"f","e","a","t","u","r","e">>, <<"s","e","r","v","i","c","e">>,
      <<"a","b","o","u","t">>, <<"c","o","m","p","a","n","y">>, <<"t","e","a","m">>,
      <<"c","o","n","t","a","c","t">>, <<"r","e","a","c","h">>,
      <<"s","u","p","p","o","r","t">>,
      <<"p","r","o","d","u","c","t">>, <<"S","h","o","p">>, <<"s","t","o","r","e">>,
      W_login, <<"A","u","t","h">>, <<"a","n">>, <<"o","n","l","i","n","e">> }

\* the words joined by single spaces
RECURSIVE joinWords(_)
joinWords(ws) ==
    IF ws = <<>> THEN <<>>
    ELSE IF Len(ws) = 1 THEN ws[1]
    ELSE ws[1] \o <<" ">> \o joinWords(Tail(ws))

Descriptions ==
    {joinWords(ws) : ws \in UNION {[1..n -> Words] : n \in 1..MaxKeywords}}
    \cup {D_Store}

AnalyzeInit ==
    /\ projects = {}
    /\ heap = <<>>
    /\ timers = {}
    /\ nextId = 1
    /\ inflight = EmptyBag
    /\ res = NoResponse
    /\ str \in Descriptions
    /\ ret = <<>>
    /\ pc = "call"
    /\ apiKey = TRUE

\* pageSequence = analyzeDescriptionForPages(description) (server.js:1131)
AnalyzeCall ==
    /\ pc = "call"
    /\ ret' = analyzeDescriptionForPages(str)
    /\ pc' = "analyzed"
    /\ UNCHANGED <<str, sessionVars>>

AnalyzeNext == AnalyzeCall

AnalyzeSpec == AnalyzeInit /\ [][AnalyzeNext]_vars

\* the description holds the keyword 'login' or 'auth', in any case
MentionsLogin ==
    \/ includes(toLowerCase(str), W_login)
    \/ includes(toLowerCase(str), W_auth)

\* C16: the sequence derived from a description holds a login page only if
\* the description holds 'login' or 'auth'; without either keyword it starts
\* with the home page.
C16_LoginOnlyWhenMentioned ==
    (pc = "analyzed" /\ ~MentionsLogin) =>
        /\ \A i \in 1..Len(ret) : ret[i] # PAGE_TYPES.LOGIN
        /\ ret[1] = PAGE_TYPES.HOME

\* C17: the derived sequence holds the home page exactly once, has at least
\* three entries, and its 'detail' entries come after every other entry.
C17_HomeOnceAtLeastThree ==
    pc = "analyzed" =>
        /\ Cardinality({i \in 1..Len(ret) : ret[i] = PAGE_TYPES.HOME}) = 1
        /\ Len(ret) >= 3
        /\ \A i, j \in 1..Len(ret) :
                (i < j /\ ret[i] = PAGE_TYPES.DETAIL) => ret[j] = PAGE_TYPES.DETAIL

\* the sequence derived from "an online store": two pages and three details
C17_Witness ==
    /\ pc = "analyzed"
    /\ str = D_Store
    /\ Len(ret) = 5
    /\ ret[3] = PAGE_TYPES.DETAIL

----------------------------------------------------------------------------
(* Runs of inferActionFromText on one element text *)

\* words of an element text
MaxTextWords == 2

TextWords ==
    { <<"L","o","g","i","n">>, <<"S","I","G","N">>, <<"I","n">>, <<"u","p">>,
      <<"R","e","g","i","s","t","e","r">>, <<"C","o","n","t","a","c","t">>,
      <<"r","e","a","c","h">>, <<"L","e","a","r","n">>, <<"M","O","R","E">>,
      <<"S","t","a","r","t">>, <<"b","e","g","i","n">>,
      <<"F","e","a","t","u","r","e","s">>, <<"A","b","o","u","t">>,
      <<"O","K">>, <<"u","s">> }

ElementTexts ==
    {joinWords(ws) : ws \in UNION {[1..n -> TextWords] : n \in 0..MaxTextWords}}

InferInit ==
    /\ projects = {}
    /\ heap = <<>>
    /\ timers = {}
    /\ nextId = 1
    /\ inflight = EmptyBag
    /\ res = NoResponse
    /\ str \in ElementTexts
    /\ ret = ""
    /\ pc = "call"
    /\ apiKey = TRUE

\* action: inferActionFromText(child.text || child.placeholder || '')
\* (server.js:332)
InferCall ==
    /\ pc = "call"
    /\ ret' = inferActionFromText(str)
    /\ pc' = "inferred"
    /\ UNCHANGED <<str, sessionVars>>

InferNext == InferCall

InferSpec == InferInit /\ [][InferNext]_vars

\* the rule table of the claim: an action and the keywords that select it
ActionRules ==
    << [action |-> "login",
        keywords |-> {<<"l","o","g","i","n">>, <<"s","i","g","n"," ","i","n">>}],
       [action |-> "register",
        keywords |-> {<<"s","i","g","n"," ","u","p">>,
                      <<"r","e","g","i","s","t","e","r">>}],
       [action |-> "contact",
        keywords |-> {<<"c","o","n","t","a","c","t">>, <<"r","e","a","c","h">>}],
       [action |-> "detail",
        keywords |-> {<<"l","e","a","r","n">>, <<"m","o","r","e">>}],
       [action |-> "get_started",
        keywords |-> {<<"s","t","a","r","t">>, <<"b","e","g","i","n">>}],
       [action |-> "features", keywords |-> {<<"f","e","a","t","u","r","e">>}],
       [action |-> "about", keywords |-> {<<"a","b","o","u","t">>}] >>

\* the rules of which a keyword occurs in the text, whatever the case
MatchingRules(text) ==
    {r \in 1..Len(ActionRules) :
        \E w \in ActionRules[r].keywords : includes(toLowerCase(text), w)}

\* C22: inferActionFromText returns the action of the first rule, in the
\* order login, register, contact, detail, get_started, features, about, of
\* which a keyword occurs in the text whatever the case, and 'detail' when no
\* rule matches; of several matching rules the earliest wins.
C22_FirstMatchingRuleWins ==
    pc = "inferred" =>
        IF MatchingRules(str) = {} THEN ret = "detail"
        ELSE \E r \in MatchingRules(str) :
                /\ \A q \in MatchingRules(str) : r <= q
                /\ ret = ActionRules[r].action

\* 'About Login' matches the first and the last rule and gives 'login'
C22_Witness ==
    /\ pc = "inferred"
    /\ str = <<"A","b","o","u","t"," ","L","o","g","i","n">>
    /\ MatchingRules(str) = {1, 7}
    /\ ret = "login"

----------------------------------------------------------------------------
(* Runs of the three-model POST /api/generate-design handler (part_000:469-637)
   on one request.  The handler is cut at its awaits: the request up to the
   first model call, then one step for each answer of a model.  `ret` holds
   the handler's locals and the process environment, `str` the text the last
   answering model returned, `res` the response once it is sent.  Every
   exception of a model call is caught by the nested try blocks, and nothing
   outside them throws (getFallbackDesign returns a literal), so the outer
   catch with its 'emergency-fallback' response is never entered. *)

\* variant: the second and the third model change places
ModelNames_lastResortSecond ==
    <<"gemini-2.0-flash-exp", "gemini-1.5-flash", "gemini-2.5-flash">>

\* the values of modelUsed, in the order of the nested try blocks
\* (part_000:501, 532, 563)
ModelNames == <<"gemini-2.0-flash-exp", "gemini-2.5-flash", "gemini-1.5-flash">>

T_WebsiteDesign == <<"W","e","b","s","i","t","e"," ","D","e","s","i","g","n">>
T_BuildAmazing ==
    <<"B","u","i","l","d"," ","A","m","a","z","i","n","g"," ",
      "P","r","o","d","u","c","t","s">>

\* getFallbackDesign(prompt) (part_000:155): one frame; of its constant
\* template the two texts that are made of the prompt are kept
getFallbackDesign(prompt) ==
    [frames |-> <<
        [type |-> "frame",
         name |-> IF prompt # <<>> THEN prompt ELSE T_WebsiteDesign,
         backgroundColor |-> "#FFFFFF",
         heroHeadline |-> IF prompt # <<>> THEN prompt ELSE T_BuildAmazing] >>]

\* the body of a response of the handler; `design` is Design("none", JNull)
\* and `model` is "" where the body has no such member
DesignResponse(code, success, model, design, error) ==
    [code |-> code, success |-> success, model |-> model, design |-> design,
     error |-> error]

NoDesign == Design("none", JNull)

\* prompts of a request: <<>> stands for a missing or empty prompt
Prompts == {<<>>, N_Shop, D_Store}

\* what a model call ends with: an exception of the API, or a text
ApiError == [kind |-> "error", text |-> <<>>]
ModelText(text) == [kind |-> "text", text |-> text]
ModelOutcomes ==
    {ApiError}
    \cup {ModelText(stringify(Docs[d], FALSE, FALSE)) : d \in {1, 2, 9, 11}}
    \cup {ModelText(fenced(FenceJson, stringify(Docs[3], TRUE, FALSE))),
          ModelText(P_Here \o stringify(Docs[10], FALSE, FALSE)),
          ModelText(S_Truncated)}

ModelsInit ==
    /\ projects = {}
    /\ heap = <<>>
    /\ timers = {}
    /\ nextId = 1
    /\ inflight = EmptyBag
    /\ res = DesignResponse(0, FALSE, "", NoDesign, "")
    /\ str = <<>>
    /\ ret = [prompt |-> <<>>, modelUsed |-> "", attemptLog |-> <<>>]
    /\ pc = "request"
    /\ apiKey \in BOOLEAN

\* the handler from its start to the first model call (part_000:469-516)
DesignRequest(prompt) ==
    /\ pc = "request"
    /\ IF prompt = <<>>
       THEN /\ res' = DesignResponse(400, FALSE, "", NoDesign, "Prompt is required")
            /\ ret' = [ret EXCEPT !.prompt = prompt]
            /\ pc' = "responded"
       ELSE IF ~apiKey
       THEN /\ res' = DesignResponse(500, FALSE, "", NoDesign,
                                     "GEMINI_API_KEY not configured")
            /\ ret' = [ret EXCEPT !.prompt = prompt]
            /\ pc' = "responded"
       ELSE /\ ret' = [ret EXCEPT !.prompt = prompt, !.modelUsed = ModelNames[1]]
            /\ pc' = "awaiting"
            /\ UNCHANGED res
    /\ UNCHANGED <<str, projects, heap, timers, nextId, inflight, apiKey>>

\* `Validate final structure` and the response (part_000:598-625)
designResponse(modelUsed, designJson, prompt) ==
    IF JTruthy(framesOf(designJson))
    THEN DesignResponse(200, TRUE, modelUsed, designJson, "")
    ELSE DesignResponse(200, TRUE, "fallback-template",
                        Design("fallback", getFallbackDesign(prompt)), "")

\* the handler once the model it awaits has ended with `result`, the outcome
\* of parseJSONResponse on the model's text, or with an exception of the API
\* (part_000:516-627): the response, or the call of the next model
afterAttempt(locals, failed, result) ==
    IF ~failed /\ hasFrames(result)
    THEN [pc |-> "responded",
          locals |-> locals,
          response |-> designResponse(locals.modelUsed,
                                      Design("json", result.value), locals.prompt)]
    ELSE LET logged ==
                [locals EXCEPT
                    !.attemptLog =
                        Append(@, [model |-> locals.modelUsed,
                                   error |-> IF failed THEN "API error"
                                             ELSE "Invalid JSON structure"])]
         IN  IF Len(logged.attemptLog) < Len(ModelNames)
             THEN [pc |-> "awaiting",
                   locals |-> [logged EXCEPT
                                !.modelUsed = ModelNames[Len(logged.attemptLog) + 1]],
                   response |-> res]
             ELSE [pc |-> "responded",
                   locals |-> [logged EXCEPT !.modelUsed = "fallback-template"],
                   response |->
                        designResponse("fallback-template",
                            Design("fallback", getFallbackDesign(locals.prompt)),
                            locals.prompt)]

\* one model call ends (part_000:516-596)
ModelAnswer(outcome) ==
    /\ pc = "awaiting"
    /\ LET after ==
            only({afterAttempt(ret, outcome.kind = "error", result) :
                    result \in {IF outcome.kind = "error" THEN Thrown
                                ELSE parseJSONResponse(outcome.text)}})
       IN  /\ ret' = after.locals
           /\ res' = after.response
           /\ pc' = after.pc
    /\ str' = IF outcome.kind = "error" THEN str ELSE outcome.text
    /\ UNCHANGED <<projects, heap, timers, nextId, inflight, apiKey>>

ModelsNext ==
    \/ \E prompt \in Prompts : DesignRequest(prompt)
    \/ \E outcome \in ModelOutcomes : ModelAnswer(outcome)

ModelsSpec == ModelsInit /\ [][ModelsNext]_vars

\* the models are attempted in the fixed order gemini-2.0-flash-exp,
\* gemini-2.5-flash, gemini-1.5-flash: the failed attempts logged so far are
\* the first models of that order, and the model awaited is the next one
AttemptedInOrder ==
    LET order == <<"gemini-2.0-flash-exp", "gemini-2.5-flash", "gemini-1.5-flash">>
    IN  /\ Len(ret.attemptLog) <= 3
        /\ \A i \in 1..Len(ret.attemptLog) : ret.attemptLog[i].model = order[i]
        /\ pc = "awaiting" => /\ Len(ret.attemptLog) < 3
                              /\ ret.modelUsed = order[Len(ret.attemptLog) + 1]

\* the fallback template is used only after all three attempts failed
FallbackAfterAllFailed ==
    res.model = "fallback-template" => Len(ret.attemptLog) = 3

\* a later model is called only after the previous attempt threw or produced
\* no value with frames
LaterModelAfterFailure ==
    \A outcome \in ModelOutcomes :
        ModelAnswer(outcome) /\ pc' = "awaiting"
            => /\ \/ outcome.kind = "error"
                  \/ ~hasFrames(parseJSONResponse(outcome.text))
               /\ ret'.attemptLog =
                    Append(ret.attemptLog,
                           [model |-> ret.modelUsed,
                            error |-> ret'.attemptLog[Len(ret'.attemptLog)].error])

\* the response carries success true, a design with frames, and a model field
\* naming the attempt (or 'fallback-template') that produced the design
SuccessNamingItsModel ==
    LET order == <<"gemini-2.0-flash-exp", "gemini-2.5-flash", "gemini-1.5-flash">>
    IN  /\ res.success
        /\ JTruthy(framesOf(res.design))
        /\ \/ /\ res.model = "fallback-template"
              /\ res.design.kind = "fallback"
              /\ res.design.value = getFallbackDesign(ret.prompt)
           \/ /\ res.model \in {order[k] : k \in 1..3}
              /\ res.model = order[Len(ret.attemptLog) + 1]
              /\ res.design.kind = "json"
              /\ sameValue(res.design.value, parseJSONResponse(str).value)

\* C35: in the three-model POST /api/generate-design handler the models are
\* attempted in the fixed order gemini-2.0-flash-exp, gemini-2.5-flash,
\* gemini-1.5-flash; a later model is called only after the previous attempt
\* threw or produced no value with frames; the fallback template is used only
\* after all three attempts failed; and the response always carries success
\* true, a design with frames, and a model field naming the attempt (or
\* 'fallback-template') that produced the returned design.
C35_EveryResponseSucceeds ==
    /\ [](AttemptedInOrder /\ FallbackAfterAllFailed)
    /\ [][LaterModelAfterFailure]_vars
    /\ [](pc = "responded" => SuccessNamingItsModel)

\* C35, amended: the same, the last part for the responses to a request that
\* carries a prompt while GEMINI_API_KEY is configured; a request without a
\* prompt is answered 400 and one without the key 500, both with success
\* false and no design, before any model is attempted.
C35_ResponseAfterAttemptsSucceeds ==
    /\ [](AttemptedInOrder /\ FallbackAfterAllFailed)
    /\ [][LaterModelAfterFailure]_vars
    /\ [](pc = "responded" /\ ret.prompt # <<>> /\ apiKey
            => SuccessNamingItsModel)
    /\ [](pc = "responded" /\ ret.prompt = <<>>
            => /\ ~res.success /\ res.code = 400
               /\ res.design = NoDesign /\ ret.attemptLog = <<>>)
    /\ [](pc = "responded" /\ ret.prompt # <<>> /\ ~apiKey
            => /\ ~res.success /\ res.code = 500
               /\ res.design = NoDesign /\ ret.attemptLog = <<>>)

\* the first model failed with an exception of the API, the second returned
\* a text with no frames in it, and the third model's design was sent
C35_Witness ==
    /\ pc = "responded"
    /\ res.model = "gemini-1.5-flash"
    /\ Len(ret.attemptLog) = 2
    /\ ret.attemptLog[1].error = "API error"
    /\ ret.attemptLog[2].error = "Invalid JSON structure"
    /\ res.success
    /\ res.design.kind = "json"

----------------------------------------------------------------------------
(* Runs of detectProjectType on one description and one project name *)

\* a rule of detectProjectType: the keywords of its condition and the colour
\* scheme it returns
ProjectTypeRule(type, keywords, primary, secondary, background, accent, description) ==
    [type |-> type, keywords |-> keywords, primary |-> primary,
     secondary |-> secondary, background |-> background, accent |-> accent,
     description |-> description]

\* the rules in the order of the if statements (server.js:407-516)
ProjectTypeRules == <<
    ProjectTypeRule("food",
        << <<"f","o","o","d">>,
          <<"r","e","s","t","a","u","r","a","n","t">>,
          <<"c","a","f","e">>,
          <<"k","i","t","c","h","e","n">>,
          <<"d","i","n","i","n","g">>,
          <<"m","e","n","u">> >>,
        "#EA580C", "#F59E0B", "#FFFBEB", "#B91C1C",
        "Warm appetizing colors - oranges, reds, yellows"),
    ProjectTypeRule("fitness",
        << <<"f","i","t","n","e","s","s">>,
          <<"g","y","m">>,
          <<"w","o","r","k","o","u","t">>,
          <<"h","e","a","l","t","h">>,
          <<"e","x","e","r","c","i","s","e">>,
          <<"t","r","a","i","n","i","n","g">> >>,
        "#DC2626", "#111827", "#F3F4F6", "#EA580C",
        "Bold energetic colors - reds, blacks, oranges"),
    ProjectTypeRule("tech",
        << <<"t","e","c","h">>,
          <<"s","o","f","t","w","a","r","e">>,
          <<"a","p","p">>,
          <<"d","i","g","i","t","a","l">>,
          <<"s","a","a","s">>,
          <<"p","l","a","t","f","o","r","m">> >>,
        "#2563EB", "#3B82F6", "#F8FAFC", "#1E40AF",
        "Modern tech blues with clean grays"),
    ProjectTypeRule("finance",
        << <<"f","i","n","a","n","c","e">>,
          <<"b","a","n","k">>,
          <<"m","o","n","e","y">>,
          <<"i","n","v","e","s","t">>,
          <<"c","r","y","p","t","o">>,
          <<"t","r","a","d","i","n","g">> >>,
        "#1E40AF", "#D97706", "#F9FAFB", "#059669",
        "Professional deep blues with gold accents"),
    ProjectTypeRule("healthcare",
        << <<"h","e","a","l","t","h">>,
          <<"m","e","d","i","c","a","l">>,
          <<"h","o","s","p","i","t","a","l">>,
          <<"c","l","i","n","i","c">>,
          <<"d","o","c","t","o","r">>,
          <<"c","a","r","e">> >>,
        "#14B8A6", "#60A5FA", "#F0FDFA", "#0D9488",
        "Clean teals and soft blues for trust"),
    ProjectTypeRule("education",
        << <<"e","d","u","c","a","t","i","o","n">>,
          <<"s","c","h","o","o","l">>,
          <<"l","e","a","r","n">>,
          <<"c","o","u","r","s","e">>,
          <<"a","c","a","d","e","m","y">>,
          <<"s","t","u","d","e","n","t">> >>,
        "#F59E0B", "#10B981", "#FFFBEB", "#3B82F6",
        "Warm friendly yellows and greens"),
    ProjectTypeRule("ecommerce",
        << <<"s","h","o","p">>,
          <<"s","t","o","r","e">>,
          <<"e","c","o","m","m","e","r","c","e">>,
          <<"r","e","t","a","i","l">>,
          <<"p","r","o","d","u","c","t">>,
          <<"b","u","y">> >>,
        "#EA580C", "#DC2626", "#FFF7ED", "#F97316",
        "Vibrant oranges and reds for energy"),
    ProjectTypeRule("nature",
        << <<"n","a","t","u","r","e">>,
          <<"e","c","o">>,
          <<"g","r","e","e","n">>,
          <<"e","n","v","i","r","o","n","m","e","n","t">>,
          <<"o","r","g","a","n","i","c">>,
          <<"s","u","s","t","a","i","n","a","b","l","e">> >>,
        "#16A34A", "#0EA5E9", "#F0FDF4", "#15803D",
        "Natural greens and earth tones"),
    ProjectTypeRule("luxury",
        << <<"l","u","x","u","r","y">>,
          <<"p","r","e","m","i","u","m">>,
          <<"e","x","c","l","u","s","i","v","e">>,
          <<"h","i","g","h","-","e","n","d">>,
          <<"e","l","e","g","a","n","t">> >>,
        "#000000", "#D97706", "#FAFAFA", "#7C3AED",
        "Sophisticated blacks with gold accents"),
    ProjectTypeRule("creative",
        << <<"c","r","e","a","t","i","v","e">>,
          <<"d","e","s","i","g","n">>,
          <<"a","r","t">>,
          <<"a","g","e","n","c","y">>,
          <<"s","t","u","d","i","o">>,
          <<"p","o","r","t","f","o","l","i","o">> >>,
        "#7C3AED", "#EC4899", "#FAF5FF", "#8B5CF6",
        "Creative purples and pinks") >>

\* the default schemes, chosen by the length of the project name
\* (server.js:507-513)
DefaultColors == <<
    [primary |-> "#2563EB", secondary |-> "#3B82F6", background |-> "#F8FAFC", accent |-> "#1E40AF"],
    [primary |-> "#16A34A", secondary |-> "#22C55E", background |-> "#F0FDF4", accent |-> "#15803D"],
    [primary |-> "#DC2626", secondary |-> "#EF4444", background |-> "#FEF2F2", accent |-> "#B91C1C"],
    [primary |-> "#7C3AED", secondary |-> "#8B5CF6", background |-> "#FAF5FF", accent |-> "#6D28D9"],
    [primary |-> "#EA580C", secondary |-> "#F97316", background |-> "#FFF7ED", accent |-> "#C2410C"] >>

\* the rule's condition: one of its keywords occurs in the text
ruleMatches(rule, text) ==
    \E k \in 1..Len(rule.keywords) : includes(text, rule.keywords[k])

\* detectProjectType (server.js:404): the scheme of the first rule whose
\* condition holds, a default scheme when none does
detectProjectType(description, projectName) ==
    LET text == toLowerCase(description \o <<" ">> \o projectName)
        matching == {r \in 1..Len(ProjectTypeRules) :
                        ruleMatches(ProjectTypeRules[r], text)}
    IN  IF matching # {}
        THEN LET rule == ProjectTypeRules[
                            CHOOSE r \in matching : \A q \in matching : r <= q]
             IN  [type |-> rule.type, primary |-> rule.primary,
                  secondary |-> rule.secondary, background |-> rule.background,
                  accent |-> rule.accent, description |-> rule.description]
        ELSE LET color == DefaultColors[(Len(projectName) % Len(DefaultColors)) + 1]
             IN  [type |-> "default", primary |-> color.primary,
                  secondary |-> color.secondary, background |-> color.background,
                  accent |-> color.accent,
                  description |-> "Modern professional colors"]

\* every keyword of every rule
RuleKeywords ==
    UNION {{ProjectTypeRules[r].keywords[k] :
                k \in 1..Len(ProjectTypeRules[r].keywords)} :
           r \in 1..Len(ProjectTypeRules)}

\* the first keyword of every rule
FirstKeywords ==
    {ProjectTypeRules[r].keywords[1] : r \in 1..Len(ProjectTypeRules)}

W_blog == <<"M","y"," ","b","l","o","g">>
W_health == <<"h","e","a","l","t","h">>

\* 'Kitchen' written with U+212A KELVIN SIGN, whose lower case is 'k', and
\* 'FITNESS' written with U+0130, whose lower case is 'i' and U+0307
W_KelvinKitchen == <<"\\u212a","i","t","c","h","e","n">>
W_DottedFitness == <<"F","\\u0130","T","N","E","S","S">>

\* descriptions: no keyword, one keyword in its own letters or with a
\* capital, also one outside ASCII, and the first keywords of two rules
DetectDescriptions ==
    {W_blog, W_KelvinKitchen, W_DottedFitness}
    \cup RuleKeywords
    \cup {<<"A"," ">> \o w \o <<" ">> \o W_blog : w \in RuleKeywords}
    \cup {a \o <<" ">> \o b : a \in FirstKeywords, b \in FirstKeywords}

\* project names, none holding a keyword
DetectNames == {<<"Z">>, <<"Z","e","d">>}

DetectInit ==
    /\ projects = {}
    /\ heap = <<>>
    /\ timers = {}
    /\ nextId = 1
    /\ inflight = EmptyBag
    /\ res = NoResponse
    /\ str \in DetectDescriptions
    /\ ret = [projectName |-> <<>>, colorScheme |-> Undefined]
    /\ pc = "call"
    /\ apiKey = TRUE

\* colorScheme = detectProjectType(description, projectName) (server.js:529)
DetectCall(projectName) ==
    /\ pc = "call"
    /\ ret' = [projectName |-> projectName,
               colorScheme |-> detectProjectType(str, projectName)]
    /\ pc' = "detected"
    /\ UNCHANGED <<str, sessionVars>>

DetectNext == \E projectName \in DetectNames : DetectCall(projectName)

DetectSpec == DetectInit /\ [][DetectNext]_vars

\* the text detectProjectType searched in the run
detectedText == toLowerCase(str \o <<" ">> \o ret.projectName)

\* keyword w is the only keyword of any rule that occurs in the text
OnlyKeyword(w) ==
    /\ includes(detectedText, w)
    /\ \A v \in RuleKeywords : includes(detectedText, v) => v = w

\* C36: in detectProjectType every keyword listed in a rule selects that
\* rule's project type when it is the only rule keyword occurring in the
\* text; in particular a description whose only matching keyword is 'health'
\* is classified as 'healthcare' with primary colour #14B8A6, as the
\* healthcare rule and the documented colour table state.
C36_KeywordSelectsItsRule ==
    pc = "detected" =>
        /\ \A r \in 1..Len(ProjectTypeRules) :
            \A k \in 1..Len(ProjectTypeRules[r].keywords) :
                OnlyKeyword(ProjectTypeRules[r].keywords[k])
                    => ret.colorScheme.type = ProjectTypeRules[r].type
        /\ OnlyKeyword(W_health)
                => /\ ret.colorScheme.type = "healthcare"
                   /\ ret.colorScheme.primary = "#14B8A6"

====
